---- MODULE Spec2Model ----
(***************************************************************************)
(* scryo: static extraction of Cypress commands, tests and hooks from an   *)
(* ESTree AST.  The model follows parser.js (findCyStuff, findFuncCalls),  *)
(* parseUtils.js (parseCallee, maybeGetLiteralValue, ...) and              *)
(* qwilExtension.js (runQwilExtension).                                    *)
(*                                                                         *)
(* JavaScript strings are sequences of one-character strings, so that      *)
(* startsWith / endsWith / split / slice are computed as the code computes *)
(* them.  JavaScript values are tagged records [t |-> ..., ...].           *)
(***************************************************************************)
EXTENDS Integers, Sequences, FiniteSets, TLC

(***************************************************************************)
(* String constants of the source                                          *)
(***************************************************************************)
SUPPORTED_HOOKS ==
  { <<"b", "e", "f", "o", "r", "e">>,
    <<"b", "e", "f", "o", "r", "e", "E", "a", "c", "h">>,
    <<"a", "f", "t", "e", "r">>,
    <<"a", "f", "t", "e", "r", "E", "a", "c", "h">> }

CYPRESS_COMMANDS_ADD ==
  <<"C", "y", "p", "r", "e", "s", "s", ".", "C", "o", "m", "m", "a", "n", "d", "s", ".", "a", "d", "d">>

CY_PREFIX ==
  <<"c", "y", ".">>

CALL_MARKER ==
  <<"(", ")">>

SCENARIO_PREFIX ==
  <<"e", "x", "p", "e", "c", "t", "S", "t", "a", "n", "d", "a", "r", "d", "S", "c", "e", "n", "a", "r", "i", "o", "s", "F", "o", "r">>

SCENARIO_FN_SUFFIX ==
  <<"F", "n">>

S_it ==
  <<"i", "t">>

S_describe ==
  <<"d", "e", "s", "c", "r", "i", "b", "e">>

S_undefined ==
  <<"u", "n", "d", "e", "f", "i", "n", "e", "d">>

(***************************************************************************)
(* String.prototype methods used by the source                             *)
(***************************************************************************)
StartsWith(s, p) ==
  Len(s) >= Len(p) /\ SubSeq(s, 1, Len(p)) = p

EndsWith(s, p) ==
  Len(s) >= Len(p) /\ SubSeq(s, Len(s) - Len(p) + 1, Len(s)) = p

RECURSIVE SplitFrom(_, _, _)
SplitFrom(s, i, cur) ==
  IF i > Len(s) THEN <<cur>>
  ELSE IF s[i] = "." THEN <<cur>> \o SplitFrom(s, i + 1, <<>>)
  ELSE SplitFrom(s, i + 1, Append(cur, s[i]))

\* dottedName.split('.')
SplitDots(s) ==
  SplitFrom(s, 1, <<>>)

\* s.slice(0, -2)
DropLast2(s) ==
  SubSeq(s, 1, Len(s) - 2)

\* segs.slice(1, -1)
SliceInner(segs) ==
  SubSeq(segs, 2, Len(segs) - 1)

(***************************************************************************)
(* JavaScript values                                                       *)
(***************************************************************************)
Undefined ==
  [t |-> "undefined"]

JsNull ==
  [t |-> "null"]

JsNum(n) ==
  [t |-> "number", n |-> n]

JsStr(s) ==
  [t |-> "string", s |-> s]

JsBool(b) ==
  [t |-> "boolean", b |-> b]

\* a thrown TypeError / AssertionError, propagated by every caller
Thrown ==
  [t |-> "thrown"]

\* ToBoolean: the test made by `if (value)` and `!value`
Truthy(v) ==
  CASE v.t = "undefined" -> FALSE
    [] v.t = "null" -> FALSE
    [] v.t = "boolean" -> v.b
    [] v.t = "number" -> v.n # 0
    [] v.t = "string" -> v.s # <<>>
    [] OTHER -> TRUE

\* ToPropertyKey of a small non-negative integer or of a string
DigitStr(n) ==
  <<CASE n = 0 -> "0" [] n = 1 -> "1" [] n = 2 -> "2" [] n = 3 -> "3" [] OTHER -> "9">>

KeyString(v) ==
  IF v.t = "number" THEN DigitStr(v.n) ELSE v.s

RECURSIVE ObjPut(_, _, _)
\* output[key] = value on an object kept as its ordered own properties
ObjPut(props, key, value) ==
  IF props = <<>> THEN <<[key |-> key, value |-> value]>>
  ELSE IF Head(props).key = key THEN <<[key |-> key, value |-> value]>> \o Tail(props)
  ELSE <<Head(props)>> \o ObjPut(Tail(props), key, value)

(***************************************************************************)
(* Source shapes: the syntax a file is written in, before acorn assigns    *)
(* offsets.  Layout below is acorn.parse on the compact rendering of the   *)
(* shape (no white space, every statement closed by `;`).                  *)
(***************************************************************************)
Id(name) ==
  [k |-> "Id", name |-> name]

Lit(value, rawLen) ==
  [k |-> "Lit", value |-> value, rawLen |-> rawLen]

Mem(object, name) ==
  [k |-> "Mem", object |-> object, property |-> Id(name), computed |-> FALSE]

MemC(object, property) ==
  [k |-> "Mem", object |-> object, property |-> property, computed |-> TRUE]

Call(callee, arguments) ==
  [k |-> "Call", callee |-> callee, arguments |-> arguments]

\* () => { s1; s2; }
Arrow(stmts) ==
  [k |-> "Fn", type |-> "ArrowFunctionExpression", block |-> TRUE, stmts |-> stmts, head |-> 4]

\* () => e
ArrowE(e) ==
  [k |-> "Fn", type |-> "ArrowFunctionExpression", block |-> FALSE, stmts |-> <<e>>, head |-> 4]

\* function () { s1; s2; }
Func(stmts) ==
  [k |-> "Fn", type |-> "FunctionExpression", block |-> TRUE, stmts |-> stmts, head |-> 10]

Arr(elements) ==
  [k |-> "Arr", elements |-> elements]

\* an elided array element: [, 1]
Hole ==
  [k |-> "Hole"]

Obj(properties) ==
  [k |-> "Obj", properties |-> properties]

Prop(key, value) ==
  [k |-> "Prop", key |-> key, value |-> value, computed |-> FALSE, shorthand |-> FALSE]

PropC(key, value) ==
  [k |-> "Prop", key |-> key, value |-> value, computed |-> TRUE, shorthand |-> FALSE]

PropS(name) ==
  [k |-> "Prop", key |-> Id(name), value |-> Id(name), computed |-> FALSE, shorthand |-> TRUE]

Spread(argument) ==
  [k |-> "Spread", argument |-> argument]

\* `q1${e1}q2`: quasis are the raw chunks, one more than the expressions
Tpl(quasis, expressions) ==
  [k |-> "Tpl", quasis |-> quasis, expressions |-> expressions]

Program(stmts) ==
  [k |-> "Program", stmts |-> stmts]

\* element of an array that was elided: null in node.elements
NullNode ==
  [type |-> "null"]

IsNullNode(n) ==
  n.type = "null"

RECURSIVE Layout(_, _)
RECURSIVE LayoutList(_, _, _)
RECURSIVE LayoutStmts(_, _)
RECURSIVE LayoutTpl(_, _, _, _)

\* end offset of a comma-separated list laid out from offset s
ListEnd(nodes, s) ==
  IF nodes = <<>> THEN s
  ELSE IF IsNullNode(nodes[Len(nodes)]) THEN s + Len(nodes) - 1
  ELSE nodes[Len(nodes)].end

\* comma-separated expressions; `first` is false after the first element
LayoutList(shs, s, first) ==
  IF shs = <<>> THEN <<>>
  ELSE LET at == IF first THEN s ELSE s + 1
           n == IF Head(shs).k = "Hole" THEN NullNode ELSE Layout(Head(shs), at)
           nxt == IF Head(shs).k = "Hole" THEN at ELSE n.end
       IN <<n>> \o LayoutList(Tail(shs), nxt, FALSE)

\* expression statements, each closed by `;`
LayoutStmts(shs, s) ==
  IF shs = <<>> THEN <<>>
  ELSE LET e == Layout(Head(shs), s)
           st == [type |-> "ExpressionStatement", expression |-> e, start |-> s, end |-> e.end + 1]
       IN <<st>> \o LayoutStmts(Tail(shs), st.end)

\* `raw1${e1}raw2...`: the quasis are kept as their raw text only
LayoutTpl(quasis, exprs, s, acc) ==
  IF exprs = <<>> THEN [expressions |-> acc, end |-> s + Len(Head(quasis)) + 1]
  ELSE LET e == Layout(Head(exprs), s + Len(Head(quasis)) + 2)
       IN LayoutTpl(Tail(quasis), Tail(exprs), e.end + 1, Append(acc, e))

Layout(sh, s) ==
  CASE sh.k = "Id" ->
         [type |-> "Identifier", name |-> sh.name, start |-> s, end |-> s + Len(sh.name)]
    [] sh.k = "Lit" ->
         [type |-> "Literal", value |-> sh.value, start |-> s, end |-> s + sh.rawLen]
    [] sh.k = "Mem" ->
         LET o == Layout(sh.object, s)
             p == Layout(sh.property, o.end + 1)
         IN [type |-> "MemberExpression", object |-> o, property |-> p, computed |-> sh.computed,
             start |-> s, end |-> IF sh.computed THEN p.end + 1 ELSE p.end]
    [] sh.k = "Call" ->
         LET c == Layout(sh.callee, s)
             as == LayoutList(sh.arguments, c.end + 1, TRUE)
         IN [type |-> "CallExpression", callee |-> c, arguments |-> as,
             start |-> s, end |-> ListEnd(as, c.end + 1) + 1]
    [] sh.k = "Fn" ->
         IF sh.block
         THEN LET sts == LayoutStmts(sh.stmts, s + sh.head + 1)
                  e == (IF sts = <<>> THEN s + sh.head + 1 ELSE sts[Len(sts)].end) + 1
              IN [type |-> sh.type, expression |-> FALSE,
                  body |-> [type |-> "BlockStatement", body |-> sts, start |-> s + sh.head, end |-> e],
                  start |-> s, end |-> e]
         ELSE LET b == Layout(sh.stmts[1], s + sh.head)
              IN [type |-> sh.type, expression |-> TRUE, body |-> b, start |-> s, end |-> b.end]
    [] sh.k = "Arr" ->
         LET es == LayoutList(sh.elements, s + 1, TRUE)
         IN [type |-> "ArrayExpression", elements |-> es, start |-> s, end |-> ListEnd(es, s + 1) + 1]
    [] sh.k = "Obj" ->
         LET ps == LayoutList(sh.properties, s + 1, TRUE)
         IN [type |-> "ObjectExpression", properties |-> ps, start |-> s, end |-> ListEnd(ps, s + 1) + 1]
    [] sh.k = "Prop" ->
         LET ky == Layout(sh.key, IF sh.computed THEN s + 1 ELSE s)
             ke == IF sh.computed THEN ky.end + 1 ELSE ky.end
             v == IF sh.shorthand THEN ky ELSE Layout(sh.value, ke + 1)
         IN [type |-> "Property", key |-> ky, value |-> v, computed |-> sh.computed,
             shorthand |-> sh.shorthand, start |-> s, end |-> v.end]
    [] sh.k = "Spread" ->
         LET a == Layout(sh.argument, s + 3)
         IN [type |-> "SpreadElement", argument |-> a, start |-> s, end |-> a.end]
    [] sh.k = "Tpl" ->
         LET r == LayoutTpl(sh.quasis, sh.expressions, s, <<>>)
         IN [type |-> "TemplateLiteral", quasis |-> sh.quasis, expressions |-> r.expressions,
             start |-> s, end |-> r.end]
    [] sh.k = "Program" ->
         LET sts == LayoutStmts(sh.stmts, s)
         IN [type |-> "Program", body |-> sts, start |-> s,
             end |-> IF sts = <<>> THEN s ELSE sts[Len(sts)].end]

\* parse(source): the AST of a source file
Parse(stmts) ==
  Layout(Program(stmts), 0)

(***************************************************************************)
(* parseUtils.js                                                           *)
(***************************************************************************)
\* parseCallee returns null for a callee it does not linearize
NoName ==
  [ok |-> FALSE]

RECURSIVE Traverse(_, _)
\* _traverse with a default case that returns an empty name instead of throwing IgnoreMe
Traverse_EmptyBase(n, suffix) ==
  CASE n.type = "Identifier" -> [ok |-> TRUE, name |-> n.name]
    [] n.type = "MemberExpression" ->
         LET o == Traverse(n.object, <<>>)
             pn == IF n.property.type = "Identifier" THEN n.property.name ELSE S_undefined
         IN IF o.ok THEN [ok |-> TRUE, name |-> o.name \o <<".">> \o pn \o suffix] ELSE NoName
    [] n.type = "CallExpression" -> Traverse(n.callee, CALL_MARKER)
    [] OTHER -> [ok |-> TRUE, name |-> <<>>]

\* _traverse(_node, suffix); a thrown IgnoreMe is the NoName result
Traverse(n, suffix) ==
  CASE n.type = "Identifier" -> [ok |-> TRUE, name |-> n.name]
    [] n.type = "MemberExpression" ->
         LET o == Traverse(n.object, <<>>)
             \* _node.property.name is undefined unless the property is an Identifier
             pn == IF n.property.type = "Identifier" THEN n.property.name ELSE S_undefined
         IN IF o.ok THEN [ok |-> TRUE, name |-> o.name \o <<".">> \o pn \o suffix] ELSE NoName
    [] n.type = "CallExpression" -> Traverse(n.callee, CALL_MARKER)
    [] OTHER -> NoName

parseCallee(node) ==
  Traverse(node.callee, <<>>)

getPropertyKey(propNode) ==
  IF propNode.type = "SpreadElement" THEN Undefined
  ELSE IF propNode.key.type = "Literal" THEN propNode.key.value
  ELSE IF propNode.key.type = "Identifier" THEN JsStr(propNode.key.name)
  ELSE Undefined

RECURSIVE maybeGetLiteralValue(_)
RECURSIVE LiteralProps(_, _, _)
RECURSIVE LiteralElems(_, _, _)

\* the for loop over node.properties, from index i with the output built so far
LiteralProps(props, i, output) ==
  IF i > Len(props) THEN [t |-> "object", props |-> output]
  ELSE LET key == getPropertyKey(props[i])
       IN IF ~Truthy(key) THEN Undefined
          ELSE LET value == maybeGetLiteralValue(props[i].value)
               IN IF value = Thrown THEN Thrown
                  ELSE IF ~Truthy(value) THEN Undefined
                  ELSE LiteralProps(props, i + 1, ObjPut(output, KeyString(key), value))

\* the for loop over node.elements
LiteralElems(elems, i, output) ==
  IF i > Len(elems) THEN [t |-> "array", elems |-> output]
  ELSE LET value == maybeGetLiteralValue(elems[i])
       IN IF value = Thrown THEN Thrown
          ELSE IF ~Truthy(value) THEN Undefined
          ELSE LiteralElems(elems, i + 1, Append(output, value))

maybeGetLiteralValue(node) ==
  IF IsNullNode(node) THEN Thrown
  ELSE IF node.type = "Literal" THEN node.value
  ELSE IF node.type = "ObjectExpression" THEN LiteralProps(node.properties, 1, <<>>)
  ELSE IF node.type = "ArrayExpression" THEN LiteralElems(node.elements, 1, <<>>)
  ELSE Undefined

nodeIsFunction(node) ==
  node.type \in {"FunctionExpression", "ArrowFunctionExpression"}

isTestIdentifier(ident) ==
  ident = S_it \/ StartsWith(ident, S_it \o <<".">>)

isDescribeIdentifier(ident) ==
  ident = S_describe \/ StartsWith(ident, S_describe \o <<".">>)

isTestOrDescribeIdentifier(ident) ==
  isTestIdentifier(ident) \/ isDescribeIdentifier(ident)

isSkip(ident) ==
  EndsWith(ident, <<".", "s", "k", "i", "p">>)

isOnly(ident) ==
  EndsWith(ident, <<".", "o", "n", "l", "y">>)

RECURSIVE interleaveJoin(_, _)
\* interleaveArray(quasis, expressions).join("")
interleaveJoin(quasis, expressions) ==
  IF quasis = <<>> THEN <<>>
  ELSE IF expressions = <<>> THEN Head(quasis) \o interleaveJoin(Tail(quasis), <<>>)
  ELSE Head(quasis) \o Head(expressions) \o interleaveJoin(Tail(quasis), Tail(expressions))

\* `\${${i.name}}`
Placeholder(n) ==
  <<"$", "{">> \o (IF n.type = "Identifier" THEN n.name ELSE S_undefined) \o <<"}">>

\* `[Unparseable: ${node.type}]`, kept as the node type it embeds
Unparseable(type) ==
  [t |-> "string", s |-> <<"[", "U", "n", "p", "a", "r", "s", "e", "a", "b", "l", "e", ":", " ">>, type |-> type]

inferTestName(testCallNode) ==
  IF testCallNode.arguments = <<>> THEN Thrown
  ELSE LET node == testCallNode.arguments[1]
       IN CASE node.type = "Literal" -> node.value
            [] node.type = "TemplateLiteral" ->
                 JsStr(interleaveJoin(node.quasis,
                                      [i \in 1..Len(node.expressions) |-> Placeholder(node.expressions[i])]))
            [] node.type = "Identifier" -> JsStr(Placeholder(node))
            [] OTHER -> Unparseable(node.type)

(***************************************************************************)
(* acorn-walk: children are visited before the callback of a node runs,    *)
(* and the ancestors handed to the callback end with the node itself.      *)
(***************************************************************************)
\* the sub-nodes the base visitor descends into, in order
Children(n) ==
  CASE n.type = "Program" -> n.body
    [] n.type = "BlockStatement" -> n.body
    [] n.type = "ExpressionStatement" -> <<n.expression>>
    [] n.type = "CallExpression" -> <<n.callee>> \o n.arguments
    [] n.type = "MemberExpression" -> <<n.object>> \o (IF n.computed THEN <<n.property>> ELSE <<>>)
    [] n.type \in {"FunctionExpression", "ArrowFunctionExpression"} -> <<n.body>>
    [] n.type = "ObjectExpression" -> n.properties
    [] n.type = "Property" -> (IF n.computed THEN <<n.key>> ELSE <<>>) \o <<n.value>>
    [] n.type = "SpreadElement" -> <<n.argument>>
    [] n.type = "ArrayExpression" -> SelectSeq(n.elements, LAMBDA e : ~IsNullNode(e))
    [] n.type = "TemplateLiteral" -> n.expressions
    [] OTHER -> <<>>

RECURSIVE CallVisits(_, _)
RECURSIVE CallVisitsOfList(_, _)

CallVisitsOfList(nodes, ancestors) ==
  IF nodes = <<>> THEN <<>>
  ELSE CallVisits(Head(nodes), ancestors) \o CallVisitsOfList(Tail(nodes), ancestors)

\* the calls of the CallExpression callback of walk.ancestor / walk.simple, in order
CallVisits(n, ancestors) ==
  LET anc == Append(ancestors, n)
  IN CallVisitsOfList(Children(n), anc)
       \o (IF n.type = "CallExpression" THEN <<[node |-> n, ancestors |-> anc]>> ELSE <<>>)

\* walk.ancestor(ast, ...) under `if (ast)`
WalkCalls(ast) ==
  IF IsNullNode(ast) THEN <<>> ELSE CallVisits(ast, <<>>)

(***************************************************************************)
(* parser.js                                                               *)
(***************************************************************************)
\* what one run of a callback adds to the accumulators of its walk
Nothing ==
  [raised |-> FALSE, added |-> <<>>, used |-> <<>>, tests |-> <<>>, hooks |-> <<>>, errors |-> <<>>]

Raised ==
  [raised |-> TRUE, added |-> <<>>, used |-> <<>>, tests |-> <<>>, hooks |-> <<>>, errors |-> <<>>]

Merge(acc, d) ==
  [raised |-> acc.raised \/ d.raised,
   added |-> acc.added \o d.added, used |-> acc.used \o d.used, tests |-> acc.tests \o d.tests,
   hooks |-> acc.hooks \o d.hooks, errors |-> acc.errors \o d.errors]

Diagnostic(kind, detail, found, loc) ==
  [kind |-> kind, detail |-> detail, found |-> found, loc |-> loc]

\* node.arguments.map(a => ({type, start, end}))
ArgumentList(node) ==
  [i \in 1..Len(node.arguments) |->
     [type |-> node.arguments[i].type, start |-> node.arguments[i].start, end |-> node.arguments[i].end]]

\* the values maybeGetLiteralValue gives for the arguments, by 0-based index
ArgumentValues(node) ==
  [i \in 0..(Len(node.arguments) - 1) |-> maybeGetLiteralValue(node.arguments[i + 1])]

\* the forEach filling literalArguments: only truthy values are kept
LiteralArguments(vals) ==
  [i \in {j \in DOMAIN vals : Truthy(vals[j])} |-> vals[i]]

\* maybeGetLiteralValue threw on one of the arguments
AnyThrown(vals) ==
  \E i \in DOMAIN vals : vals[i] = Thrown

\* the options findInnerCypressCalls passes: find is replaced as a whole
InnerOptions ==
  [findAdded |-> FALSE, findUsed |-> TRUE, findTests |-> FALSE, findHooks |-> FALSE,
   includeCyMethodsUsed |-> TRUE, includeOtherFuncCalls |-> TRUE, enableQwilExtension |-> FALSE]

\* calls.push({...}) of findFuncCalls, vals being the materialized arguments
FuncCallPush(node, dottedName, vals) ==
  IF AnyThrown(vals) THEN Raised
  ELSE [Nothing EXCEPT !.used =
          <<[name |-> dottedName,
             start |-> IF node.callee.type = "MemberExpression"
                       THEN node.callee.property.start ELSE node.start,
             rootStart |-> node.start,
             end |-> node.end,
             arguments |-> ArgumentList(node),
             hasLiteralArguments |-> DOMAIN LiteralArguments(vals) # {},
             literalArguments |-> LiteralArguments(vals)]>>]

\* the callback of findFuncCalls
FuncCallOf(node, excludeCy) ==
  LET dn == parseCallee(node)
  IN IF ~dn.ok \/ (excludeCy /\ StartsWith(dn.name, CY_PREFIX)) THEN Nothing
     ELSE FuncCallPush(node, dn.name, ArgumentValues(node))

RECURSIVE FuncCallsFrom(_, _, _, _)
\* the walk goes on after the callback gave d, unless it threw
FuncCallsNext(visits, i, acc, excludeCy, d) ==
  IF d.raised THEN Raised ELSE FuncCallsFrom(visits, i + 1, Merge(acc, d), excludeCy)

\* the walk of findFuncCalls from the i-th call on
FuncCallsFrom(visits, i, acc, excludeCy) ==
  IF i > Len(visits) THEN acc
  ELSE FuncCallsNext(visits, i, acc, excludeCy, FuncCallOf(visits[i].node, excludeCy))

\* findFuncCalls(ast, nameFilter): the calls are in .used of the result
findFuncCalls(ast, excludeCy) ==
  FuncCallsFrom(CallVisits(ast, <<>>), 1, Nothing, excludeCy)

findInnerFuncCalls(funcNode) ==
  findFuncCalls(funcNode, TRUE)

\* ancestors.filter(CallExpression).map(parseCallee).filter(test or describe)
ScopeNodes(ancestors) ==
  SelectSeq(ancestors,
            LAMBDA n : /\ n.type = "CallExpression"
                       /\ parseCallee(n).ok
                       /\ isTestOrDescribeIdentifier(parseCallee(n).name))

\* one frame of a scope
ScopeFrame(n, dotted) ==
  [name |-> inferTestName(n), func |-> dotted, start |-> n.start, end |-> n.end,
   skip |-> isSkip(dotted), only |-> isOnly(dotted)]

\* the frames listed innermost first
ScopeOf_Reversed(scopeNodes) ==
  [i \in 1..Len(scopeNodes) |->
     ScopeFrame(scopeNodes[Len(scopeNodes) + 1 - i], parseCallee(scopeNodes[Len(scopeNodes) + 1 - i]).name)]

\* scopeNodes.map(...): one frame per scope node
ScopeOf(scopeNodes) ==
  [i \in 1..Len(scopeNodes) |-> ScopeFrame(scopeNodes[i], parseCallee(scopeNodes[i]).name)]

\* inferTestName threw on one of the frames
ScopeThrows(scope) ==
  \E i \in 1..Len(scope) : scope[i].name = Thrown

\* used.push({...}) with the call markers left on the chain (no s.slice(0, -2))
UsedPush_KeepMarkers(node, nameSegments, parentCalls, vals) ==
  IF AnyThrown(vals) \/ node.callee.type # "MemberExpression" THEN Raised
  ELSE [Nothing EXCEPT !.used =
          <<[name |-> nameSegments[Len(nameSegments)],
             start |-> node.callee.property.start,
             end |-> node.end,
             arguments |-> ArgumentList(node),
             hasLiteralArguments |-> DOMAIN LiteralArguments(vals) # {},
             literalArguments |-> LiteralArguments(vals),
             chain |-> parentCalls]>>]

\* the chain, the arguments and used.push({...}); vals are the materialized arguments
UsedPush(node, nameSegments, parentCalls, vals) ==
  IF AnyThrown(vals) \/ node.callee.type # "MemberExpression" THEN Raised
  ELSE [Nothing EXCEPT !.used =
          <<[name |-> nameSegments[Len(nameSegments)],
             start |-> node.callee.property.start,
             end |-> node.end,
             arguments |-> ArgumentList(node),
             hasLiteralArguments |-> DOMAIN LiteralArguments(vals) # {},
             literalArguments |-> LiteralArguments(vals),
             chain |-> [i \in 1..Len(parentCalls) |-> DropLast2(parentCalls[i])]]>>]

\* the loop over parentCalls left out: the record is pushed whatever the parent segments are
UsedChain_NoBareCheck(node, nameSegments, parentCalls) ==
  UsedPush(node, nameSegments, parentCalls, ArgumentValues(node))

\* the loop over parentCalls: the call is dropped when a parent segment is not called
UsedChain(node, nameSegments, parentCalls) ==
  IF \E i \in 1..Len(parentCalls) : ~EndsWith(parentCalls[i], CALL_MARKER) THEN Nothing
  ELSE UsedPush(node, nameSegments, parentCalls, ArgumentValues(node))

\* branch `findUsed && dottedName.startsWith("cy.")`
UsedBranch(node, dottedName) ==
  UsedChain(node, SplitDots(dottedName), SliceInner(SplitDots(dottedName)))

\* the inner callback with the test for the cy. prefix left out
InnerHandleCall_AnyName(node, dn) ==
  IF ~dn.ok THEN Nothing
  ELSE IF InnerOptions.findAdded /\ dn.name = CYPRESS_COMMANDS_ADD THEN Nothing
  ELSE IF InnerOptions.findUsed THEN UsedBranch(node, dn.name)
  ELSE Nothing

\* the callback of findCyStuff under InnerOptions: only the `used` branch is enabled
InnerHandleCall(node, dn) ==
  IF ~dn.ok THEN Nothing
  ELSE IF InnerOptions.findAdded /\ dn.name = CYPRESS_COMMANDS_ADD THEN Nothing
  ELSE IF InnerOptions.findUsed /\ StartsWith(dn.name, CY_PREFIX) THEN UsedBranch(node, dn.name)
  ELSE Nothing

RECURSIVE InnerWalkFrom(_, _, _)
\* the inner walk goes on after the callback gave d, unless it threw
InnerWalkNext(visits, i, acc, d) ==
  IF d.raised THEN Raised ELSE InnerWalkFrom(visits, i + 1, Merge(acc, d))

\* the walk of the inner findCyStuff from the i-th call on
InnerWalkFrom(visits, i, acc) ==
  IF i > Len(visits) THEN acc
  ELSE InnerWalkNext(visits, i, acc, InnerHandleCall(visits[i].node, parseCallee(visits[i].node)))

\* findCyStuff(funcNode, { find: { used: true } }).used
findInnerCypressCalls(funcNode) ==
  InnerWalkFrom(WalkCalls(funcNode), 1, Nothing)

\* the nested-call fields of a record, from the results of the two inner walks
InnerRecord(o, cy, other) ==
  [raised |-> cy.raised \/ other.raised,
   hasCyMethodsUsed |-> o.includeCyMethodsUsed, cyMethodsUsed |-> cy.used,
   hasOtherFuncCalls |-> o.includeOtherFuncCalls, otherFuncCalls |-> other.used]

\* ...(includeCyMethodsUsed && {cyMethodsUsed}), ...(includeOtherFuncCalls && {otherFuncCalls})
InnerFields(funcNode, o) ==
  InnerRecord(o,
              IF o.includeCyMethodsUsed THEN findInnerCypressCalls(funcNode) ELSE Nothing,
              IF o.includeOtherFuncCalls THEN findInnerFuncCalls(funcNode) ELSE Nothing)

\* added.push({...})
AddedPush(node, nameNode, inner) ==
  IF inner.raised THEN Raised
  ELSE [Nothing EXCEPT !.added =
          <<[name |-> nameNode.value, start |-> node.start, end |-> node.end,
             hasCyMethodsUsed |-> inner.hasCyMethodsUsed, cyMethodsUsed |-> inner.cyMethodsUsed,
             hasOtherFuncCalls |-> inner.hasOtherFuncCalls,
             otherFuncCalls |-> inner.otherFuncCalls]>>]

\* the branch with funcNode taken at the fixed index [1] instead of .at(-1)
AddedBranch_FixedIndex(node, o) ==
  IF node.arguments = <<>> THEN Raised
  ELSE IF node.arguments[1].type # "Literal" THEN Raised
  ELSE AddedPush(node, node.arguments[1],
                 InnerFields(node.arguments[IF Len(node.arguments) >= 2 THEN 2 ELSE 1], o))

\* branch `findAdded && dottedName === "Cypress.Commands.add"`
AddedBranch(node, o) ==
  IF node.arguments = <<>> THEN Raised
  ELSE IF node.arguments[1].type # "Literal" THEN Raised
  ELSE AddedPush(node, node.arguments[1], InnerFields(node.arguments[Len(node.arguments)], o))

\* tests.push({...}) with skip/only taken from the test's own frame only
TestPush_OwnFrameOnly(node, funcNode, scope, inner) ==
  IF ScopeThrows(scope) \/ inner.raised THEN Raised
  ELSE [Nothing EXCEPT !.tests =
          <<[scope |-> scope, start |-> node.start, end |-> node.end,
             funcStart |-> funcNode.start, funcEnd |-> funcNode.end,
             hasCyMethodsUsed |-> inner.hasCyMethodsUsed, cyMethodsUsed |-> inner.cyMethodsUsed,
             hasOtherFuncCalls |-> inner.hasOtherFuncCalls,
             otherFuncCalls |-> inner.otherFuncCalls,
             skip |-> scope[Len(scope)].skip,
             only |-> scope[Len(scope)].only]>>]

\* tests.push({...})
TestPush(node, funcNode, scope, inner) ==
  IF ScopeThrows(scope) \/ inner.raised THEN Raised
  ELSE [Nothing EXCEPT !.tests =
          <<[scope |-> scope, start |-> node.start, end |-> node.end,
             funcStart |-> funcNode.start, funcEnd |-> funcNode.end,
             hasCyMethodsUsed |-> inner.hasCyMethodsUsed, cyMethodsUsed |-> inner.cyMethodsUsed,
             hasOtherFuncCalls |-> inner.hasOtherFuncCalls,
             otherFuncCalls |-> inner.otherFuncCalls,
             skip |-> \E i \in 1..Len(scope) : scope[i].skip,
             only |-> \E i \in 1..Len(scope) : scope[i].only]>>]

\* branch `findTests && isTestIdentifier(dottedName)`
TestBranch(node, ancestors, dottedName, o) ==
  IF Len(node.arguments) < 2
  THEN [Nothing EXCEPT !.errors = <<Diagnostic("insufficient arguments", dottedName, "", node.start)>>]
  ELSE IF ~nodeIsFunction(node.arguments[2])
  THEN [Nothing EXCEPT !.errors =
          <<Diagnostic("function expected", <<>>, node.arguments[2].type, node.arguments[2].start)>>]
  ELSE TestPush(node, node.arguments[2], ScopeOf(ScopeNodes(ancestors)),
                InnerFields(node.arguments[2], o))

\* hooks[dottedName].push({...}) with the skip/only spreads of tests.push copied over
HookPush_WithFlags(node, dottedName, funcNode, scope, inner) ==
  IF ScopeThrows(scope) \/ inner.raised THEN Raised
  ELSE [Nothing EXCEPT !.hooks =
          <<[kind |-> dottedName,
             scope |-> scope, start |-> node.start, end |-> node.end,
             funcStart |-> funcNode.start, funcEnd |-> funcNode.end,
             hasCyMethodsUsed |-> inner.hasCyMethodsUsed, cyMethodsUsed |-> inner.cyMethodsUsed,
             hasOtherFuncCalls |-> inner.hasOtherFuncCalls,
             otherFuncCalls |-> inner.otherFuncCalls,
             skip |-> \E i \in 1..Len(scope) : scope[i].skip,
             only |-> \E i \in 1..Len(scope) : scope[i].only]>>]

\* hooks[dottedName].push({...})
HookPush(node, dottedName, funcNode, scope, inner) ==
  IF ScopeThrows(scope) \/ inner.raised THEN Raised
  ELSE [Nothing EXCEPT !.hooks =
          <<[kind |-> dottedName,
             scope |-> scope, start |-> node.start, end |-> node.end,
             funcStart |-> funcNode.start, funcEnd |-> funcNode.end,
             hasCyMethodsUsed |-> inner.hasCyMethodsUsed, cyMethodsUsed |-> inner.cyMethodsUsed,
             hasOtherFuncCalls |-> inner.hasOtherFuncCalls,
             otherFuncCalls |-> inner.otherFuncCalls]>>]

\* the guard `scopeNodes.some((o) => isTestIdentifier(o.dotted))` and the push
HookInScope(node, dottedName, scopeNodes, o) ==
  IF \E i \in 1..Len(scopeNodes) : isTestIdentifier(parseCallee(scopeNodes[i]).name) THEN Nothing
  ELSE HookPush(node, dottedName, node.arguments[1], ScopeOf(scopeNodes),
                InnerFields(node.arguments[1], o))

\* branch `findHooks && SUPPORTED_HOOKS.has(dottedName)`
HookBranch(node, ancestors, dottedName, o) ==
  IF Len(node.arguments) # 1 THEN Nothing
  ELSE IF ~nodeIsFunction(node.arguments[1]) THEN Nothing
  ELSE HookInScope(node, dottedName, ScopeNodes(ancestors), o)

\* the branches of the callback, dn being parseCallee(node)
Classify(node, ancestors, o, dn) ==
  IF ~dn.ok THEN Nothing
  ELSE IF o.findAdded /\ dn.name = CYPRESS_COMMANDS_ADD THEN AddedBranch(node, o)
  ELSE IF o.findUsed /\ StartsWith(dn.name, CY_PREFIX) THEN UsedBranch(node, dn.name)
  ELSE IF o.findTests /\ isTestIdentifier(dn.name) THEN TestBranch(node, ancestors, dn.name, o)
  ELSE IF o.findHooks /\ dn.name \in SUPPORTED_HOOKS THEN HookBranch(node, ancestors, dn.name, o)
  ELSE Nothing

\* the CallExpression callback of findCyStuff
HandleCall(node, ancestors, o) ==
  Classify(node, ancestors, o, parseCallee(node))

(***************************************************************************)
(* qwilExtension.js                                                        *)
(***************************************************************************)
ExtNothing ==
  [raised |-> FALSE, errors |-> <<>>, scenarios |-> <<>>]

ExtRaised ==
  [raised |-> TRUE, errors |-> <<>>, scenarios |-> <<>>]

\* the callback of implNode.body.body.forEach with the hooks left out of the allowed names
DescribeMember_HooksBanned(n) ==
  IF n.type = "ExpressionStatement" /\ n.expression.type = "CallExpression"
  THEN LET dn == parseCallee(n.expression)
       IN IF ~dn.ok THEN <<>>
          ELSE IF isTestOrDescribeIdentifier(dn.name) THEN <<>>
          ELSE IF StartsWith(dn.name, SCENARIO_PREFIX) THEN <<>>
          ELSE <<Diagnostic("PURE DESCRIBE", dn.name, "", n.start)>>
  ELSE <<>>

\* the callback of implNode.body.body.forEach: the diagnostics of one statement
DescribeMember(n) ==
  IF n.type = "ExpressionStatement" /\ n.expression.type = "CallExpression"
  THEN LET dn == parseCallee(n.expression)
       IN IF ~dn.ok THEN <<>>
          ELSE IF isTestOrDescribeIdentifier(dn.name) \/ dn.name \in SUPPORTED_HOOKS THEN <<>>
          ELSE IF StartsWith(dn.name, SCENARIO_PREFIX) THEN <<>>
          ELSE <<Diagnostic("PURE DESCRIBE", dn.name, "", n.start)>>
  ELSE <<>>

RECURSIVE DescribeMembers(_)
DescribeMembers(stmts) ==
  IF stmts = <<>> THEN <<>> ELSE DescribeMember(Head(stmts)) \o DescribeMembers(Tail(stmts))

validateDescribeMembers(node) ==
  IF node.callee.type # "Identifier" THEN ExtRaised
  ELSE IF Len(node.arguments) < 2
  THEN [ExtNothing EXCEPT !.errors = <<Diagnostic("insufficient arguments", S_describe, "", node.start)>>]
  ELSE IF node.arguments[1].type # "Literal"
  THEN [ExtNothing EXCEPT !.errors = <<Diagnostic("MAYBE FACTORY", <<>>, "", node.start)>>]
  ELSE LET implNode == node.arguments[2]
       IN IF ~nodeIsFunction(implNode)
          THEN [ExtNothing EXCEPT !.errors =
                  <<Diagnostic("function expected", <<>>, implNode.type, implNode.start)>>]
          \* implNode.body.body is not an array unless the body is a block
          ELSE IF implNode.body.type # "BlockStatement" THEN ExtRaised
          ELSE [ExtNothing EXCEPT !.errors = DescribeMembers(implNode.body.body)]

\* the filter of the test and hook branches used for scenarios: test calls are kept
DescribeScopeNodes_WithTests(ancestors) ==
  SelectSeq(ancestors,
            LAMBDA n : /\ n.type = "CallExpression"
                       /\ parseCallee(n).ok
                       /\ isTestOrDescribeIdentifier(parseCallee(n).name))

\* ancestors restricted to describe calls (parseScenario)
DescribeScopeNodes(ancestors) ==
  SelectSeq(ancestors,
            LAMBDA n : /\ n.type = "CallExpression"
                       /\ parseCallee(n).ok
                       /\ isDescribeIdentifier(parseCallee(n).name))

\* scenario.functions.push({...})
ScenarioFunction(propName, propNode, cy, other) ==
  IF cy.raised \/ other.raised THEN ExtRaised
  ELSE [ExtNothing EXCEPT !.scenarios =
          <<[name |-> propName, start |-> propNode.start, end |-> propNode.end,
             funcStart |-> propNode.value.start, funcEnd |-> propNode.value.end,
             cyMethodsUsed |-> cy.used, otherFuncCalls |-> other.used]>>]

\* the callback of argNode.properties.forEach, propName being getPropertyKey(propNode)
ScenarioProp(propNode, propName) ==
  IF propName.t # "string" THEN ExtRaised
  ELSE IF EndsWith(propName.s, SCENARIO_FN_SUFFIX)
  THEN IF propNode.shorthand
       THEN [ExtNothing EXCEPT !.errors = <<Diagnostic("shorthand", propName.s, "", propNode.start)>>]
       ELSE IF ~nodeIsFunction(propNode.value)
       THEN [ExtNothing EXCEPT !.errors =
               <<Diagnostic("prop value must be a function", propName.s, propNode.value.type,
                            propNode.value.start)>>]
       ELSE ScenarioFunction(propName.s, propNode, findInnerCypressCalls(propNode.value),
                             findInnerFuncCalls(propNode.value))
  ELSE IF nodeIsFunction(propNode.value)
  THEN [ExtNothing EXCEPT !.errors =
          <<Diagnostic("prop does not end with Fn", propName.s, "", propNode.value.start)>>]
  ELSE ExtNothing

RECURSIVE ScenarioProps(_, _, _)
\* the forEach goes on after the callback gave d, unless it threw
ScenarioPropsNext(props, i, acc, d) ==
  IF d.raised THEN ExtRaised
  ELSE ScenarioProps(props, i + 1,
                     [acc EXCEPT !.errors = @ \o d.errors, !.scenarios = @ \o d.scenarios])

\* the forEach over the properties: .scenarios collects the functions
ScenarioProps(props, i, acc) ==
  IF i > Len(props) THEN acc
  ELSE ScenarioPropsNext(props, i, acc, ScenarioProp(props[i], getPropertyKey(props[i])))

\* return { errors, scenario }
ScenarioResult(node, name, scope, props) ==
  IF ScopeThrows(scope) \/ props.raised THEN ExtRaised
  ELSE [ExtNothing EXCEPT
          !.errors = props.errors,
          !.scenarios = <<[name |-> name, scope |-> scope, start |-> node.start, end |-> node.end,
                           functions |-> props.scenarios]>>]

parseScenario(node, ancestors, name) ==
  IF node.callee.type # "Identifier" THEN ExtRaised
  ELSE IF Len(node.arguments) # 1
  THEN [ExtNothing EXCEPT !.errors = <<Diagnostic("scenario arity", name, "", node.start)>>]
  ELSE IF node.arguments[1].type # "ObjectExpression"
  THEN [ExtNothing EXCEPT !.errors =
          <<Diagnostic("ObjectExpression expected", name, node.arguments[1].type, node.start)>>]
  ELSE ScenarioResult(node, name, ScopeOf(DescribeScopeNodes(ancestors)),
                      ScenarioProps(node.arguments[1].properties, 1, ExtNothing))

\* the branches of the callback, dn being parseCallee(node)
ExtClassify(node, ancestors, dn) ==
  IF ~dn.ok THEN ExtNothing
  ELSE IF dn.name = S_describe THEN validateDescribeMembers(node)
  ELSE IF StartsWith(dn.name, SCENARIO_PREFIX) THEN parseScenario(node, ancestors, dn.name)
  ELSE ExtNothing

\* the CallExpression callback of runQwilExtension
ExtHandleCall(node, ancestors) ==
  ExtClassify(node, ancestors, parseCallee(node))

(***************************************************************************)
(* The analysed files: source shapes drawn from a bounded grammar          *)
(***************************************************************************)
\* longest callee chain (member accesses and calls after the base)
MaxLinks ==
  6

\* deepest nesting of enclosing calls around a statement
MaxNest ==
  1

S_cy ==
  <<"c", "y">>

S_foo ==
  <<"f", "o", "o">>

S_a ==
  <<"a">>

S_b ==
  <<"b">>

S_x ==
  <<"x">>

S_skip ==
  <<"s", "k", "i", "p">>

S_only ==
  <<"o", "n", "l", "y">>

S_each ==
  <<"e", "a", "c", "h">>

S_before ==
  <<"b", "e", "f", "o", "r", "e">>

S_afterEach ==
  <<"a", "f", "t", "e", "r", "E", "a", "c", "h">>

S_helper ==
  <<"s", "o", "m", "e", "O", "t", "h", "e", "r", "H", "e", "l", "p", "e", "r">>

S_scenarioX ==
  SCENARIO_PREFIX \o <<"X">>

S_runFn ==
  <<"r", "u", "n", "F", "n">>

\* "S", "t", "login": string literals with their raw width
LitS ==
  Lit(JsStr(<<"S">>), 3)

LitT ==
  Lit(JsStr(<<"t">>), 3)

LitLogin ==
  Lit(JsStr(<<"l", "o", "g", "i", "n">>), 7)

Lit42 ==
  Lit(JsNum(42), 2)

\* cy.a(), cy.a().b(), foo()
CyA ==
  Call(Mem(Id(S_cy), S_a), <<>>)

CyAB ==
  Call(Mem(CyA, S_b), <<>>)

FooCall ==
  Call(Id(S_foo), <<>>)

RECURSIVE ChainOf(_, _)
\* base followed by the links: a name is `.name`, the call marker is `()`
ChainOf(base, links) ==
  IF links = <<>> THEN base
  ELSE LET l == links[Len(links)]
           inner == ChainOf(base, SubSeq(links, 1, Len(links) - 1))
       IN IF l = CALL_MARKER THEN Call(inner, <<>>) ELSE Mem(inner, l)

ChainBases ==
  {Id(S_cy), Id(S_foo), Id(S_it), Arr(<<>>)}

ChainLinks ==
  {S_a, S_b, CALL_MARKER}

\* one statement: a call whose callee is a chain of up to MaxLinks links
ChainPrograms ==
  {<<ChainOf(base, links)>> :
     base \in ChainBases,
     links \in {ls \in UNION {[1..n -> ChainLinks] : n \in 1..MaxLinks} : ls[Len(ls)] = CALL_MARKER}}

LeafLiterals ==
  {Lit(JsNum(1), 1), Lit(JsNum(0), 1), Lit(JsStr(S_x), 3), Lit(JsStr(<<>>), 2),
   Lit(JsBool(TRUE), 4), Lit(JsBool(FALSE), 5), Lit(JsNull, 4)}

LiteralKeys ==
  {Id(S_a), Lit(JsStr(S_b), 3), Lit(JsNum(1), 1), Lit(JsNum(0), 1), Lit(JsStr(<<>>), 2)}

\* object/array trees whose leaves are literals and whose keys are literals or identifiers
LiteralTrees ==
  LeafLiterals
    \cup {Arr(<<x>>) : x \in LeafLiterals}
    \cup {Arr(<<x, Lit(JsStr(S_x), 3)>>) : x \in LeafLiterals}
    \cup {Obj(<<Prop(k, x)>>) : k \in LiteralKeys, x \in LeafLiterals}
    \cup {Obj(<<Prop(Id(S_a), x), Prop(Id(S_b), Arr(<<Lit(JsNum(2), 1), y>>))>>) :
            x \in {Lit(JsNum(1), 1), Lit(JsNum(0), 1)}, y \in {Lit(JsStr(S_x), 3), Lit(JsBool(FALSE), 5)}}
    \cup {Obj(<<Prop(Id(S_a), Lit(JsNum(1), 1)), Prop(Id(S_a), Lit(JsNum(2), 1))>>), Obj(<<>>), Arr(<<>>)}

\* argument shapes that are not trees of literals
OtherArguments ==
  {Id(S_x), Arrow(<<>>), Arr(<<Hole, Lit(JsNum(1), 1)>>), Arr(<<Spread(Id(S_x))>>),
   Obj(<<Spread(Id(S_x))>>), Obj(<<PropC(Id(S_a), Lit(JsNum(1), 1))>>),
   Obj(<<Prop(Id(S_a), Arrow(<<>>))>>), Obj(<<PropS(S_a)>>),
   Tpl(<<S_a, S_b>>, <<Id(S_x)>>), Arr(<<Id(S_x)>>), Call(Mem(Id(S_cy), S_b), <<>>),
   Obj(<<Prop(Id(S_b), Obj(<<PropC(Id(S_a), Lit(JsNum(1), 1))>>))>>),
   Obj(<<PropC(Lit(JsStr(S_b), 3), Lit(JsNum(1), 1))>>)}

\* cy.a(arg), cy.a(1, arg), it("t", () => { foo(arg); }) and before(() => { foo(arg); })
ArgumentPrograms ==
  UNION {{<<Call(Mem(Id(S_cy), S_a), <<t>>)>>,
          <<Call(Mem(Id(S_cy), S_a), <<Lit(JsNum(1), 1), t>>)>>,
          <<Call(Id(S_it), <<LitT, Arrow(<<Call(Id(S_foo), <<t>>)>>)>>)>>,
          <<Call(Id(S_before), <<Arrow(<<Call(Id(S_foo), <<t>>)>>)>>)>>} :
           t \in LiteralTrees \cup OtherArguments}

\* the statements placed inside the enclosing calls
InnerStatements ==
  {Call(Id(S_it), <<LitT, Arrow(<<CyA>>)>>),
   Call(Mem(Id(S_it), S_skip), <<LitT, Func(<<FooCall>>)>>),
   Call(Mem(Id(S_it), S_only), <<LitT, Arrow(<<>>)>>),
   Call(Id(S_it), <<LitT>>),
   Call(Id(S_it), <<LitT, Lit42>>),
   Call(Id(S_it), <<>>),
   Call(Id(S_it), <<Id(S_x), ArrowE(CyA)>>),
   Call(Id(S_before), <<Arrow(<<CyAB>>)>>),
   Call(Id(S_before), <<Lit42>>),
   Call(Id(S_before), <<Arrow(<<>>), Arrow(<<>>)>>),
   Call(Id(S_before), <<>>),
   Call(Id(S_afterEach), <<Func(<<FooCall>>)>>),
   Call(Mem(Id(S_before), S_skip), <<Arrow(<<>>)>>),
   Call(Id(S_helper), <<>>),
   CyAB,
   Call(Mem(Mem(Id(S_cy), S_a), S_b), <<>>),
   Call(Call(Mem(Id(S_cy), S_a), <<>>), <<>>),
   Call(Mem(Arr(<<>>), S_a), <<>>),
   Call(Id(S_scenarioX), <<Obj(<<Prop(Id(S_runFn), Arrow(<<CyA>>))>>)>>),
   Call(Id(S_scenarioX), <<>>),
   Call(Mem(Id(S_scenarioX), S_a), <<>>),
   Call(Id(S_scenarioX), <<Obj(<<Prop(Id(S_a), Arrow(<<>>)), PropS(S_runFn)>>)>>),
   Call(Mem(Mem(Id(<<"C", "y", "p", "r", "e", "s", "s">>), <<"C", "o", "m", "m", "a", "n", "d", "s">>), <<"a", "d", "d">>),
        <<LitLogin, Arrow(<<CyAB, FooCall>>)>>),
   Call(Mem(Mem(Id(<<"C", "y", "p", "r", "e", "s", "s">>), <<"C", "o", "m", "m", "a", "n", "d", "s">>), <<"a", "d", "d">>),
        <<Lit42, Arrow(<<>>)>>),
   Call(Mem(Mem(Id(<<"C", "y", "p", "r", "e", "s", "s">>), <<"C", "o", "m", "m", "a", "n", "d", "s">>), <<"a", "d", "d">>),
        <<Id(S_x), Arrow(<<>>)>>),
   Call(Mem(Mem(Id(<<"C", "y", "p", "r", "e", "s", "s">>), <<"C", "o", "m", "m", "a", "n", "d", "s">>), <<"a", "d", "d">>),
        <<>>)}

\* the calls a statement can be enclosed by
Wrappers ==
  {"describe", "describe.skip", "describe.only", "describe(x)", "describe=>e", "it",
   "describe.each(e).x()", "e()", "foo(e)"}

Wrap(w, e) ==
  CASE w = "describe" -> Call(Id(S_describe), <<LitS, Arrow(<<e>>)>>)
    [] w = "describe.skip" -> Call(Mem(Id(S_describe), S_skip), <<LitS, Func(<<e>>)>>)
    [] w = "describe.only" -> Call(Mem(Id(S_describe), S_only), <<LitS, Arrow(<<e>>)>>)
    [] w = "describe(x)" -> Call(Id(S_describe), <<Id(S_x), Arrow(<<e>>)>>)
    [] w = "describe=>e" -> Call(Id(S_describe), <<LitS, ArrowE(e)>>)
    [] w = "it" -> Call(Id(S_it), <<LitT, Arrow(<<e>>)>>)
    [] w = "describe.each(e).x()" -> Call(Mem(Call(Mem(Id(S_describe), S_each), <<e>>), S_x), <<>>)
    [] w = "e()" -> Call(e, <<>>)
    [] w = "foo(e)" -> Call(Id(S_foo), <<e>>)

RECURSIVE WrapAll(_, _)
\* ws[1] is the outermost enclosing call
WrapAll(ws, e) ==
  IF ws = <<>> THEN e ELSE Wrap(Head(ws), WrapAll(Tail(ws), e))

\* one statement enclosed by up to MaxNest calls
NestedPrograms ==
  {<<WrapAll(ws, e)>> :
     ws \in UNION {[1..n -> Wrappers] : n \in 0..MaxNest}, e \in InnerStatements}

\* the bodies of the suites below: several top-level statements
SuiteBodies ==
  {<<Call(Id(S_it), <<LitT, Arrow(<<>>)>>), Call(Id(S_helper), <<>>)>>,
   <<FooCall, Call(Id(S_before), <<Arrow(<<>>)>>), Call(Id(S_helper), <<>>)>>,
   <<CyA, Call(Mem(Arr(<<>>), S_a), <<>>), Call(Id(S_scenarioX), <<Obj(<<>>)>>)>>,
   <<Call(Mem(Id(S_describe), S_skip), <<LitS, Arrow(<<FooCall>>)>>), Id(S_x)>>}

\* describe("S", () => { ... }), describe.only("S", function () { ... }), describe.skip(...)
SuitePrograms ==
  UNION {{<<Call(Id(S_describe), <<LitS, Arrow(b)>>)>>,
          <<Call(Mem(Id(S_describe), S_only), <<LitS, Func(b)>>)>>,
          <<Call(Mem(Id(S_describe), S_skip), <<LitS, Arrow(b)>>)>>} : b \in SuiteBodies}

\* cy[x](), cy["a"](), cy.a()[x](), foo[x](), it[x]("t", () => {}) and calls of them inside a test
ComputedStatements ==
  {Call(MemC(Id(S_cy), Id(S_x)), <<>>),
   Call(MemC(Id(S_cy), Lit(JsStr(S_a), 3)), <<>>),
   Call(MemC(CyA, Id(S_x)), <<>>),
   Call(Mem(Call(MemC(Id(S_cy), Id(S_x)), <<>>), S_b), <<>>),
   Call(MemC(Id(S_foo), Id(S_x)), <<>>),
   Call(MemC(Id(S_it), Id(S_x)), <<LitT, Arrow(<<>>)>>),
   Call(MemC(Id(S_it), Lit(JsStr(S_skip), 6)), <<LitT, Arrow(<<>>)>>),
   Call(Id(S_it), <<LitT, Arrow(<<Call(MemC(Id(S_cy), Id(S_x)), <<>>),
                                  Call(MemC(Id(S_foo), Lit(JsStr(S_a), 3)), <<>>)>>)>>)}

\* Cypress.Commands.add
AddCallee ==
  Mem(Mem(Id(<<"C", "y", "p", "r", "e", "s", "s">>), <<"C", "o", "m", "m", "a", "n", "d", "s">>), <<"a", "d", "d">>)

\* Cypress.Commands.add("login", <options>, <implementation>) with calls in both
AddStatements ==
  {Call(AddCallee, <<LitLogin, Obj(<<Prop(Id(S_a), Call(Mem(Id(S_cy), S_b), <<>>)), Prop(Id(S_b), Call(Id(S_helper), <<>>))>>),
                     Arrow(<<CyA, FooCall>>)>>),
   Call(AddCallee, <<LitLogin, Arrow(<<Call(Mem(Id(S_cy), S_b), <<>>), Call(Id(S_helper), <<>>)>>), Func(<<CyAB>>)>>),
   Call(AddCallee, <<LitLogin, Arrow(<<CyA, FooCall>>), Obj(<<Prop(Id(S_a), Lit(JsNum(1), 1))>>)>>),
   Call(AddCallee, <<LitLogin, Obj(<<>>), Arrow(<<Call(Mem(Id(S_cy), S_b), <<>>)>>), Arrow(<<FooCall, CyA>>)>>),
   Call(AddCallee, <<LitLogin, Id(S_x)>>),
   Call(AddCallee, <<LitLogin>>)}

\* expectStandardScenariosForX({...}) with the kinds of property an object can hold
ScenarioStatements ==
  {Call(Id(S_scenarioX), <<Obj(<<Spread(Id(S_x))>>)>>),
   Call(Id(S_scenarioX), <<Obj(<<Prop(Lit(JsNum(1), 1), Arrow(<<>>))>>)>>),
   Call(Id(S_scenarioX), <<Obj(<<Prop(Lit(JsStr(S_runFn), 7), Arrow(<<CyA, FooCall>>)),
                                 Prop(Id(S_a), Lit(JsNum(1), 1)),
                                 Prop(Id(S_b), Func(<<>>))>>)>>),
   Call(Id(S_scenarioX), <<Obj(<<Prop(Id(S_runFn), Lit(JsNum(1), 1)), Prop(Id(S_runFn), Arrow(<<>>))>>)>>),
   Call(Id(S_scenarioX), <<Obj(<<PropC(Id(S_x), Lit(JsNum(1), 1)), PropS(S_a)>>)>>),
   Call(Id(S_scenarioX), <<Obj(<<Prop(Id(S_runFn), Arrow(<<>>)), Spread(Id(S_x))>>)>>),
   Call(Id(S_scenarioX), <<Id(S_x)>>),
   Call(Id(S_scenarioX), <<Obj(<<>>), Obj(<<>>)>>),
   \* scenario calls below suites, tests and hooks
   Call(Id(S_describe), <<LitS, Arrow(<<Call(Id(S_it), <<LitT, Arrow(<<Call(Id(S_scenarioX), <<Obj(<<Prop(Id(S_runFn), Arrow(<<>>))>>)>>)>>)>>),
                                        Call(Id(S_before), <<Arrow(<<Call(Id(S_scenarioX), <<Obj(<<>>)>>)>>)>>)>>)>>),
   Call(Mem(Id(S_describe), S_only), <<LitS, Func(<<Call(Id(S_describe), <<LitLogin, Arrow(<<Call(Id(S_scenarioX), <<Obj(<<>>)>>),
                                                                                               Call(Id(S_it), <<LitT, Arrow(<<CyA>>)>>)>>)>>)>>)>>),
   Call(Mem(Id(S_it), S_skip), <<LitT, Arrow(<<Call(Id(S_foo), <<Call(Id(S_scenarioX), <<Obj(<<Prop(Id(S_runFn), Arrow(<<CyA>>))>>)>>)>>)>>)>>)}

\* tests whose bodies hold calls of several callee shapes
BodyStatements ==
  {Call(Id(S_it), <<LitT, Arrow(<<Call(Mem(Id(S_foo), S_a), <<>>), CyAB, Call(FooCall, <<>>)>>)>>),
   Call(Id(S_it), <<LitT, Func(<<Call(Call(Mem(Id(S_foo), S_a), <<>>), <<>>)>>)>>),
   Call(Id(S_it), <<LitT, Arrow(<<Call(Mem(Call(Mem(Id(S_foo), S_a), <<>>), S_b), <<Call(Mem(Arr(<<>>), S_a), <<>>)>>),
                                  Call(Mem(Mem(Id(S_cy), S_a), S_b), <<>>)>>)>>)}

Programs ==
  ChainPrograms \cup ArgumentPrograms \cup NestedPrograms \cup SuitePrograms
    \cup {<<e>> : e \in ComputedStatements \cup AddStatements \cup ScenarioStatements \cup BodyStatements}

\* the option sets of `dump`, `dump --qwil` and `find`
OptionSets ==
  {[findAdded |-> TRUE, findUsed |-> TRUE, findTests |-> TRUE, findHooks |-> TRUE,
    includeCyMethodsUsed |-> TRUE, includeOtherFuncCalls |-> TRUE, enableQwilExtension |-> q] :
     q \in BOOLEAN}
    \cup {[findAdded |-> TRUE, findUsed |-> TRUE, findTests |-> FALSE, findHooks |-> FALSE,
           includeCyMethodsUsed |-> FALSE, includeOtherFuncCalls |-> TRUE,
           enableQwilExtension |-> FALSE]}

(***************************************************************************)
(* findCyStuff as a state machine: one step per callback invocation        *)
(***************************************************************************)
VARIABLES ast, options, pc, idx, added, used, tests, hooks, errors, scenarios, extErrors

\* the state of a `dump` run of the command line: its arguments, the position of
\* doDump, the resolved file names, the loop index, `out`, what was printed and
\* the exit status (-1 while the process runs)
VARIABLES argv, qwil, dpc, filenames, cursor, out, stdout, exitCode

dumpVars ==
  <<argv, qwil, dpc, filenames, cursor, out, stdout, exitCode>>

vars ==
  <<ast, options, pc, idx, added, used, tests, hooks, errors, scenarios, extErrors,
    argv, qwil, dpc, filenames, cursor, out, stdout, exitCode>>


Init ==
  /\ ast \in {Parse(p) : p \in Programs} \cup {NullNode}
  /\ options \in OptionSets
  /\ pc = "walk"
  /\ idx = 1
  /\ added = <<>>
  /\ used = <<>>
  /\ tests = <<>>
  /\ hooks = [h \in SUPPORTED_HOOKS |-> <<>>]
  /\ errors = <<>>
  /\ scenarios = <<>>
  /\ extErrors = <<>>
  \* findCyStuff is called as a library function: no dump run is in progress
  /\ argv = <<>>
  /\ qwil = FALSE
  /\ dpc = "idle"
  /\ filenames = <<>>
  /\ cursor = 1
  /\ out = <<>>
  /\ stdout = <<>>
  /\ exitCode = -1

\* hooks[dottedName].push(...)
PushHooks(hs, d) ==
  [h \in SUPPORTED_HOOKS |-> hs[h] \o SelectSeq(d, LAMBDA r : r.kind = h)]

\* what the callback gave is pushed to the accumulators, or the throw leaves the walk
Push(d) ==
  IF d.raised
  THEN /\ pc' = "raised"
       /\ UNCHANGED <<idx, added, used, tests, hooks, errors>>
  ELSE /\ pc' = "walk"
       /\ idx' = idx + 1
       /\ added' = added \o d.added
       /\ used' = used \o d.used
       /\ tests' = tests \o d.tests
       /\ hooks' = PushHooks(hooks, d.hooks)
       /\ errors' = errors \o d.errors

\* the walk started without the `if (ast)` test: walking no AST throws
VisitCall_NoAstTest ==
  IF IsNullNode(ast)
  THEN /\ pc = "walk"
       /\ pc' = "raised"
       /\ UNCHANGED <<ast, options, idx, added, used, tests, hooks, errors, scenarios, extErrors>>
       /\ UNCHANGED dumpVars
  ELSE /\ pc = "walk"
       /\ idx <= Len(WalkCalls(ast))
       /\ Push(HandleCall(WalkCalls(ast)[idx].node, WalkCalls(ast)[idx].ancestors, options))
       /\ UNCHANGED <<ast, options, scenarios, extErrors>>
       /\ UNCHANGED dumpVars

\* the CallExpression callback of findCyStuff runs on the next call of the walk
VisitCall ==
  /\ pc = "walk"
  /\ idx <= Len(WalkCalls(ast))
  /\ Push(HandleCall(WalkCalls(ast)[idx].node, WalkCalls(ast)[idx].ancestors, options))
  /\ UNCHANGED <<ast, options, scenarios, extErrors>>
  /\ UNCHANGED dumpVars

\* `if (qwilExtension)`: the second walk starts
StartExtension ==
  /\ pc = "walk"
  /\ idx > Len(WalkCalls(ast))
  /\ options.enableQwilExtension
  /\ pc' = "ext"
  /\ idx' = 1
  /\ UNCHANGED <<ast, options, added, used, tests, hooks, errors, scenarios, extErrors>>
  /\ UNCHANGED dumpVars

\* what the extension's callback gave is pushed, or the throw leaves the walk
ExtPush(d) ==
  IF d.raised
  THEN /\ pc' = "raisedInExtension"
       /\ UNCHANGED <<idx, scenarios, extErrors>>
  ELSE /\ pc' = "ext"
       /\ idx' = idx + 1
       /\ scenarios' = scenarios \o d.scenarios
       /\ extErrors' = extErrors \o d.errors

\* the CallExpression callback of runQwilExtension runs on the next call
ExtVisitCall ==
  /\ pc = "ext"
  /\ idx <= Len(WalkCalls(ast))
  /\ ExtPush(ExtHandleCall(WalkCalls(ast)[idx].node, WalkCalls(ast)[idx].ancestors))
  /\ UNCHANGED <<ast, options, added, used, tests, hooks, errors>>
  /\ UNCHANGED dumpVars

\* the extension's errors are appended and the result is returned
Return ==
  /\ \/ pc = "walk" /\ ~options.enableQwilExtension
     \/ pc = "ext"
  /\ idx > Len(WalkCalls(ast))
  /\ pc' = "done"
  /\ errors' = errors \o extErrors
  /\ UNCHANGED <<ast, options, idx, added, used, tests, hooks, scenarios, extErrors>>
  /\ UNCHANGED dumpVars

Next ==
  \/ VisitCall
  \/ StartExtension
  \/ ExtVisitCall
  \/ Return

Spec ==
  Init /\ [][Next]_vars

(***************************************************************************)
(* scryo dump <file_or_dir...>: resolvePaths, then the loop of doDump      *)
(***************************************************************************)
\* most path arguments of one run
MaxPaths ==
  3

\* <stem>.js
JsFile(stem) ==
  stem \o <<".", "j", "s">>

P_lib ==
  <<"l", "i", "b">>

\* path.join(dir, f)
InDir(dir, f) ==
  dir \o <<"/">> \o f

\* the working directory of the run: what fs.existsSync, fs.lstatSync, glob.sync
\* and fs.promises.readFile give for a path
Disk(p) ==
  CASE p = JsFile(<<"a">>) -> [kind |-> "file", text |-> "source", stmts |-> <<CyAB>>]
    [] p = JsFile(<<"b">>) -> [kind |-> "file", text |-> "shebang", stmts |-> <<>>]
    [] p = JsFile(<<"c">>) -> [kind |-> "file", text |-> "invalid", stmts |-> <<>>]
    [] p = JsFile(<<"d">>) -> [kind |-> "file", text |-> "source", stmts |-> <<Call(CyA, <<>>)>>]
    [] p = P_lib -> [kind |-> "directory", entries |-> <<JsFile(<<"y">>), JsFile(<<"x">>)>>]
    [] p = InDir(P_lib, JsFile(<<"x">>)) ->
         [kind |-> "file", text |-> "source",
          stmts |-> <<Call(Id(S_describe), <<LitS, Arrow(<<Call(Id(S_it), <<LitT, Arrow(<<CyA>>)>>),
                                                            Call(Id(S_helper), <<>>)>>)>>)>>]
    [] p = InDir(P_lib, JsFile(<<"y">>)) -> [kind |-> "file", text |-> "shebang", stmts |-> <<>>]
    [] p = <<"n", ".", "t", "x", "t">> -> [kind |-> "file", text |-> "source", stmts |-> <<>>]
    [] OTHER -> [kind |-> "missing"]

\* the paths a run can be given
ArgNames ==
  {JsFile(<<"a">>), JsFile(<<"b">>), JsFile(<<"c">>), JsFile(<<"d">>), P_lib, InDir(P_lib, JsFile(<<"x">>)),
   <<"n", ".", "t", "x", "t">>, JsFile(<<"g", "o", "n", "e">>)}

\* the UTF-16 code unit of a character of a path
CodeUnit(ch) ==
  CASE ch = "." -> 46 [] ch = "/" -> 47 [] ch = "a" -> 97 [] ch = "b" -> 98 [] ch = "c" -> 99
    [] ch = "d" -> 100 [] ch = "e" -> 101 [] ch = "g" -> 103 [] ch = "i" -> 105 [] ch = "j" -> 106
    [] ch = "l" -> 108 [] ch = "n" -> 110 [] ch = "o" -> 111 [] ch = "s" -> 115 [] ch = "t" -> 116
    [] ch = "x" -> 120 [] ch = "y" -> 121

RECURSIVE LexLess(_, _)
\* the order of Array.prototype.sort without a comparator: by code units
LexLess(s, t) ==
  IF t = <<>> THEN FALSE
  ELSE IF s = <<>> THEN TRUE
  ELSE IF CodeUnit(Head(s)) # CodeUnit(Head(t)) THEN CodeUnit(Head(s)) < CodeUnit(Head(t))
  ELSE LexLess(Tail(s), Tail(t))

\* Set.prototype.add on a set kept in insertion order
SetAdd(set, x) ==
  IF \E k \in 1..Len(set) : set[k] = x THEN set ELSE Append(set, x)

RECURSIVE SetAddAll(_, _)
SetAddAll(set, xs) ==
  IF xs = <<>> THEN set ELSE SetAddAll(SetAdd(set, Head(xs)), Tail(xs))

RECURSIVE InsertSorted(_, _)
InsertSorted(x, sorted) ==
  IF sorted = <<>> THEN <<x>>
  ELSE IF LexLess(x, Head(sorted)) THEN <<x>> \o sorted
  ELSE <<Head(sorted)>> \o InsertSorted(x, Tail(sorted))

RECURSIVE SortPaths(_)
\* Array.from(resolved).sort()
SortPaths(set) ==
  IF set = <<>> THEN <<>> ELSE InsertSorted(Head(set), SortPaths(Tail(set)))

RECURSIVE ResolveFrom(_, _, _)
\* the for loop of resolvePaths from the i-th distinct path on; quit(...) ends the process
ResolveFrom(ps, i, resolved) ==
  IF i > Len(ps) THEN [quit |-> FALSE, files |-> SortPaths(resolved)]
  ELSE IF Disk(ps[i]).kind = "missing" THEN [quit |-> TRUE, files |-> <<>>]
  ELSE IF Disk(ps[i]).kind = "file"
  THEN IF EndsWith(ps[i], <<".", "j", "s">>)
       THEN ResolveFrom(ps, i + 1, SetAdd(resolved, ps[i]))
       ELSE [quit |-> TRUE, files |-> <<>>]
  ELSE ResolveFrom(ps, i + 1,
                   SetAddAll(resolved,
                             [k \in 1..Len(Disk(ps[i]).entries) |-> InDir(ps[i], Disk(ps[i]).entries[k])]))

resolvePaths(paths) ==
  ResolveFrom(SetAddAll(<<>>, paths), 1, <<>>)

\* Object.assign(optionDefaults, { enableQwilExtension })
DumpOptions(q) ==
  [findAdded |-> TRUE, findUsed |-> TRUE, findTests |-> TRUE, findHooks |-> TRUE,
   includeCyMethodsUsed |-> TRUE, includeOtherFuncCalls |-> TRUE, enableQwilExtension |-> q]

DumpInit ==
  /\ argv \in UNION {[1..n -> ArgNames] : n \in 1..MaxPaths}
  /\ qwil \in BOOLEAN
  /\ dpc = "resolve"
  /\ filenames = <<>>
  /\ cursor = 1
  /\ out = <<>>
  /\ stdout = <<>>
  /\ exitCode = -1
  /\ ast = NullNode
  /\ options = DumpOptions(qwil)
  /\ pc = "idle"
  /\ idx = 1
  /\ added = <<>>
  /\ used = <<>>
  /\ tests = <<>>
  /\ hooks = [h \in SUPPORTED_HOOKS |-> <<>>]
  /\ errors = <<>>
  /\ scenarios = <<>>
  /\ extErrors = <<>>

\* const filenames = resolvePaths(paths); let out = {}
DumpResolve ==
  /\ dpc = "resolve"
  /\ IF resolvePaths(argv).quit
     THEN /\ dpc' = "exited"
          /\ exitCode' = 1
          /\ UNCHANGED filenames
     ELSE /\ dpc' = "read"
          /\ exitCode' = exitCode
          /\ filenames' = resolvePaths(argv).files
  /\ UNCHANGED <<argv, qwil, cursor, out, stdout>>
  /\ UNCHANGED <<ast, options, pc, idx, added, used, tests, hooks, errors, scenarios, extErrors>>

\* a loop that goes on to the next file when one does not parse
DumpRead_SkipInvalid ==
  /\ dpc = "read"
  /\ cursor <= Len(filenames)
  /\ IF Disk(filenames[cursor]).text = "invalid"
     THEN /\ cursor' = cursor + 1
          /\ UNCHANGED <<dpc, exitCode>>
          /\ UNCHANGED <<ast, options, pc, idx, added, used, tests, hooks, errors, scenarios, extErrors>>
     ELSE /\ cursor' = cursor
          /\ dpc' = "analyse"
          /\ exitCode' = exitCode
          /\ ast' = IF Disk(filenames[cursor]).text = "shebang" THEN NullNode
                    ELSE Parse(Disk(filenames[cursor]).stmts)
          /\ options' = DumpOptions(qwil)
          /\ pc' = "walk"
          /\ idx' = 1
          /\ added' = <<>>
          /\ used' = <<>>
          /\ tests' = <<>>
          /\ hooks' = [h \in SUPPORTED_HOOKS |-> <<>>]
          /\ errors' = <<>>
          /\ scenarios' = <<>>
          /\ extErrors' = <<>>
  /\ UNCHANGED <<argv, qwil, filenames, out, stdout>>

\* await readFileAndParseAST(path.resolve(filename)), and findCyStuff is entered
DumpRead ==
  /\ dpc = "read"
  /\ cursor <= Len(filenames)
  /\ IF Disk(filenames[cursor]).text = "invalid"
     THEN /\ dpc' = "exited"
          /\ exitCode' = 1
          /\ UNCHANGED <<ast, options, pc, idx, added, used, tests, hooks, errors, scenarios, extErrors>>
     ELSE /\ dpc' = "analyse"
          /\ exitCode' = exitCode
          /\ ast' = IF Disk(filenames[cursor]).text = "shebang" THEN NullNode
                    ELSE Parse(Disk(filenames[cursor]).stmts)
          /\ options' = DumpOptions(qwil)
          /\ pc' = "walk"
          /\ idx' = 1
          /\ added' = <<>>
          /\ used' = <<>>
          /\ tests' = <<>>
          /\ hooks' = [h \in SUPPORTED_HOOKS |-> <<>>]
          /\ errors' = <<>>
          /\ scenarios' = <<>>
          /\ extErrors' = <<>>
  /\ UNCHANGED <<argv, qwil, filenames, cursor, out, stdout>>

\* out[filename] = findCyStuff(...): the result returned is stored and the loop goes on
DumpStore ==
  /\ dpc = "analyse"
  /\ pc = "done"
  /\ out' = Append(out, [filename |-> filenames[cursor], added |-> added, used |-> used, tests |-> tests,
                         hooks |-> hooks, hasScenarios |-> options.enableQwilExtension,
                         scenarios |-> scenarios, errors |-> errors])
  /\ cursor' = cursor + 1
  /\ dpc' = "read"
  /\ pc' = "idle"
  /\ UNCHANGED <<argv, qwil, filenames, stdout, exitCode>>
  /\ UNCHANGED <<ast, options, idx, added, used, tests, hooks, errors, scenarios, extErrors>>

\* findCyStuff threw: doDump rejects and the process ends with a failure status
DumpAbort ==
  /\ dpc = "analyse"
  /\ pc \in {"raised", "raisedInExtension"}
  /\ dpc' = "exited"
  /\ exitCode' = 1
  /\ UNCHANGED <<argv, qwil, filenames, cursor, out, stdout>>
  /\ UNCHANGED <<ast, options, pc, idx, added, used, tests, hooks, errors, scenarios, extErrors>>

\* console.log(JSON.stringify(out, null, 2)) after the loop; the process ends
DumpPrint ==
  /\ dpc = "read"
  /\ cursor > Len(filenames)
  /\ stdout' = Append(stdout, out)
  /\ dpc' = "exited"
  /\ exitCode' = 0
  /\ UNCHANGED <<argv, qwil, filenames, cursor, out>>
  /\ UNCHANGED <<ast, options, pc, idx, added, used, tests, hooks, errors, scenarios, extErrors>>

DumpNext ==
  \/ DumpResolve
  \/ DumpRead
  \/ VisitCall
  \/ StartExtension
  \/ ExtVisitCall
  \/ Return
  \/ DumpStore
  \/ DumpAbort
  \/ DumpPrint

DumpSpec ==
  DumpInit /\ [][DumpNext]_vars

(***************************************************************************)
(* Properties                                                              *)
(***************************************************************************)
Visits ==
  WalkCalls(ast)

NodeAt(i) ==
  Visits[i].node

\* the callback of findCyStuff has run to its end on the i-th call
Handled(i) ==
  \/ pc \in {"walk", "raised"} /\ i < idx
  \/ pc \in {"ext", "raisedInExtension", "done"}

\* the callback of findCyStuff threw on the i-th call
RaisedAt(i) ==
  pc = "raised" /\ idx = i

\* the callback of findCyStuff is about to run on the call at idx
AtCall ==
  pc = "walk" /\ idx <= Len(Visits)

RECURSIVE IsFluentCall(_)
\* cy.s1().s2()...sn(): every segment a plain member access that is called, as written
IsFluentCall(n) ==
  /\ n.type = "CallExpression"
  /\ n.arguments = <<>>
  /\ n.callee.type = "MemberExpression"
  /\ ~n.callee.computed
  /\ \/ n.callee.object.type = "Identifier" /\ n.callee.object.name = S_cy
     \/ IsFluentCall(n.callee.object)

RECURSIVE FluentNames(_)
\* <<s1, ..., sn>> of a fluent call
FluentNames(n) ==
  IF n.callee.object.type = "Identifier" THEN <<n.callee.property.name>>
  ELSE FluentNames(n.callee.object) \o <<n.callee.property.name>>

UsagesEndingAt(e) ==
  SelectSeq(used, LAMBDA r : r.end = e)

RECURSIVE ChainBase(_)
\* the node a callee chain starts from
ChainBase(c) ==
  CASE c.type = "MemberExpression" -> ChainBase(c.object)
    [] c.type = "CallExpression" -> ChainBase(c.callee)
    [] OTHER -> c

RECURSIVE InvokedFlags(_, _)
\* one flag per link of a callee chain, base first: the link is the callee of a call of the chain
InvokedFlags(c, invoked) ==
  CASE c.type = "MemberExpression" -> InvokedFlags(c.object, FALSE) \o <<invoked>>
    [] c.type = "CallExpression" -> InvokedFlags(c.callee, TRUE)
    [] OTHER -> <<invoked>>

\* one flag per segment of a resolved name: the segment carries the call marker
MarkedFlags(name) ==
  [k \in 1..Len(SplitDots(name)) |-> EndsWith(SplitDots(name)[k], CALL_MARKER)]

\* the callee chain of n starts from something else than an identifier
Unlinearizable(n) ==
  ChainBase(n.callee).type # "Identifier"

\* a call resolved under cy. with a member access before the last one that is not invoked
IsBareCyCall(n) ==
  /\ parseCallee(n).ok
  /\ StartsWith(parseCallee(n).name, CY_PREFIX)
  /\ \E k \in 2..(Len(InvokedFlags(n.callee, FALSE)) - 1) : ~InvokedFlags(n.callee, FALSE)[k]

\* the callback of runQwilExtension is about to run on the call at idx
AtExtCall ==
  pc = "ext" /\ idx <= Len(Visits)

\* C1: with usage detection on, every call of a fluent chain cy.s1().s2()...sn()
\* yields exactly one CommandUsage, named after its own segment sk and with
\* chain <<s1, ..., s(k-1)>>.
C1_FluentChainUsages ==
  \A i \in 1..Len(Visits) :
    (options.findUsed /\ IsFluentCall(NodeAt(i)) /\ (Handled(i) \/ RaisedAt(i))) =>
      LET names == FluentNames(NodeAt(i))
          recs == UsagesEndingAt(NodeAt(i).end)
      IN /\ Len(recs) = 1
         /\ recs[1].name = names[Len(names)]
         /\ recs[1].chain = SubSeq(names, 1, Len(names) - 1)

\* cy.a().b().a() was analysed: usages a / b / a with chains <<>>, <<a>>, <<a, b>>
C1_Witness ==
  /\ pc = "done"
  /\ \E i \in 1..Len(Visits) :
       /\ IsFluentCall(NodeAt(i))
       /\ Len(FluentNames(NodeAt(i))) = 3
       /\ \E r \in {used[j] : j \in 1..Len(used)} : r.chain = <<S_a, S_b>> /\ r.name = S_a
       /\ \E r \in {used[j] : j \in 1..Len(used)} : r.chain = <<S_a>> /\ r.name = S_b
       /\ \E r \in {used[j] : j \in 1..Len(used)} : r.chain = <<>> /\ r.name = S_a

C3_MarkersMatchInvokedLinks ==
  \A i \in 1..Len(Visits) :
    (Handled(i) /\ parseCallee(NodeAt(i)).ok) =>
      MarkedFlags(parseCallee(NodeAt(i)).name) = InvokedFlags(NodeAt(i).callee, FALSE)

\* C4: a call whose callee chain starts from something else than an identifier
\* is unresolvable for parseCallee, and the callbacks of findCyStuff, findFuncCalls
\* and runQwilExtension push no record and no diagnostic for it and go on to the
\* next call.
C4_UnresolvableCalleeIgnored ==
  [][/\ (AtCall /\ Unlinearizable(NodeAt(idx))) =>
          /\ ~parseCallee(NodeAt(idx)).ok
          /\ FuncCallOf(NodeAt(idx), TRUE) = Nothing
          /\ FuncCallOf(NodeAt(idx), FALSE) = Nothing
          /\ pc' = "walk"
          /\ idx' = idx + 1
          /\ UNCHANGED <<added, used, tests, hooks, errors>>
     /\ (AtExtCall /\ Unlinearizable(NodeAt(idx))) =>
          /\ pc' = "ext"
          /\ idx' = idx + 1
          /\ UNCHANGED <<scenarios, extErrors>>]_vars

\* it("t", () => { [].a(); }) was analysed with the extension on: the test is there
C4_Witness ==
  /\ pc = "done"
  /\ options.enableQwilExtension
  /\ Len(tests) = 1
  /\ errors = <<>>
  /\ \E i \in 1..(Len(Visits) - 1) : Unlinearizable(NodeAt(i))

\* the records pushed for the call node n
TestsAt(n) ==
  SelectSeq(tests, LAMBDA r : r.start = n.start /\ r.end = n.end)


\* n is the call describe.<flag>(...) or it.<flag>(...) as written
IsFlagged(n, flag) ==
  /\ n.type = "CallExpression"
  /\ n.callee.type = "MemberExpression"
  /\ ~n.callee.computed
  /\ n.callee.property.name = flag
  /\ n.callee.object.type = "Identifier"
  /\ n.callee.object.name \in {S_it, S_describe}

\* the i-th call is, or is enclosed by, a call flagged as written
UnderFlag(i, flag) ==
  \E k \in 1..Len(Visits[i].ancestors) : IsFlagged(Visits[i].ancestors[k], flag)

\* C5: a TestCase's scope ends with the frame of its own call, its skip flag is
\* true iff some frame of the scope has skip = true, likewise for only, and a
\* test enclosed by describe.skip (describe.only) is reported skipped (only).
C5_TestSkipOnlyFromScope ==
  /\ \A k \in 1..Len(tests) :
       /\ tests[k].scope # <<>>
       /\ tests[k].scope[Len(tests[k].scope)].start = tests[k].start
       /\ tests[k].scope[Len(tests[k].scope)].end = tests[k].end
       /\ tests[k].skip <=> \E f \in 1..Len(tests[k].scope) : tests[k].scope[f].skip
       /\ tests[k].only <=> \E f \in 1..Len(tests[k].scope) : tests[k].scope[f].only
  /\ \A i \in 1..Len(Visits) :
       \A k \in 1..Len(TestsAt(NodeAt(i))) :
         /\ UnderFlag(i, S_skip) => TestsAt(NodeAt(i))[k].skip
         /\ UnderFlag(i, S_only) => TestsAt(NodeAt(i))[k].only

\* a plain it under describe.skip was recorded as skipped
C5_Witness ==
  \E k \in 1..Len(tests) :
    /\ Len(tests[k].scope) = 2
    /\ tests[k].scope[1].skip
    /\ tests[k].scope[2].func = S_it
    /\ ~tests[k].scope[2].skip
    /\ tests[k].skip
    /\ ~tests[k].only

\* every Hook record pushed so far
HookRecords ==
  hooks[S_before] \o hooks[S_before \o <<"E", "a", "c", "h">>] \o hooks[<<"a", "f", "t", "e", "r">>] \o hooks[S_afterEach]

\* the top-level flag of a record; a flag that is not there reads as false
TopFlag(r, flag) ==
  flag \in DOMAIN r /\ r[flag]

HooksAt(n) ==
  SelectSeq(HookRecords, LAMBDA r : r.start = n.start /\ r.end = n.end)

\* C6 (as amended): a Hook record carries no top-level skip or only flag; an
\* enclosing describe.skip / describe.only shows only as skip / only on the frames
\* of the hook's scope, each frame's flags coming from its own resolved name.
C6_HookFlagsOnFramesOnly ==
  /\ \A k \in 1..Len(HookRecords) :
       /\ ~TopFlag(HookRecords[k], "skip")
       /\ ~TopFlag(HookRecords[k], "only")
       /\ \A f \in 1..Len(HookRecords[k].scope) :
            /\ HookRecords[k].scope[f].skip <=> isSkip(HookRecords[k].scope[f].func)
            /\ HookRecords[k].scope[f].only <=> isOnly(HookRecords[k].scope[f].func)
  /\ \A i \in 1..Len(Visits) :
       \A k \in 1..Len(HooksAt(NodeAt(i))) :
         /\ UnderFlag(i, S_skip) => \E f \in 1..Len(HooksAt(NodeAt(i))[k].scope) : HooksAt(NodeAt(i))[k].scope[f].skip
         /\ UnderFlag(i, S_only) => \E f \in 1..Len(HooksAt(NodeAt(i))[k].scope) : HooksAt(NodeAt(i))[k].scope[f].only

\* a hook enclosed by describe.skip was recorded
C6_Witness ==
  \E k \in 1..Len(HookRecords) :
    /\ Len(HookRecords[k].scope) = 1
    /\ HookRecords[k].scope[1].skip
    /\ ~TopFlag(HookRecords[k], "skip")

\* C6 as stated: a Hook record's top-level skip (only) flag is the OR of the
\* skip (only) flags of its scope frames.
C6_HookSkipOnlyFromScope ==
  \A k \in 1..Len(HookRecords) :
    /\ TopFlag(HookRecords[k], "skip") <=>
         \E f \in 1..Len(HookRecords[k].scope) : HookRecords[k].scope[f].skip
    /\ TopFlag(HookRecords[k], "only") <=>
         \E f \in 1..Len(HookRecords[k].scope) : HookRecords[k].scope[f].only

\* the record the callback pushed last has the span of the call node n
LastIsFor(records, n) ==
  records[Len(records)].start = n.start /\ records[Len(records)].end = n.end

\* the call resolves to `it` or to a name starting with `it.`
IsTestCall(n) ==
  parseCallee(n).ok /\ isTestIdentifier(parseCallee(n).name)

\* fewer than 2 arguments, or a second argument that is not a function
IsMalformedTest(n) ==
  Len(n.arguments) < 2 \/ n.arguments[2].type \notin {"FunctionExpression", "ArrowFunctionExpression"}

\* C7: with test detection on, a call resolved to `it` or `it.*` that has fewer
\* than 2 arguments or a non-function second argument adds exactly one diagnostic
\* and no TestCase; any other such call adds exactly one TestCase and no diagnostic.
C7_TestOrDiagnostic ==
  [][(AtCall /\ options.findTests /\ IsTestCall(NodeAt(idx))) =>
       IF IsMalformedTest(NodeAt(idx))
       THEN /\ pc' = "walk"
            /\ tests' = tests
            /\ Len(errors') = Len(errors) + 1
            /\ SubSeq(errors', 1, Len(errors)) = errors
       ELSE /\ pc' = "walk"
            /\ errors' = errors
            /\ Len(tests') = Len(tests) + 1
            /\ SubSeq(tests', 1, Len(tests)) = tests
            /\ LastIsFor(tests', NodeAt(idx))]_vars

\* the call resolves to one of the four hook names
IsHookNamed(n) ==
  /\ parseCallee(n).ok
  /\ parseCallee(n).name \in {S_before, S_before \o <<"E", "a", "c", "h">>, <<"a", "f", "t", "e", "r">>, S_afterEach}

\* one of the calls enclosing the i-th call resolves to `it` or `it.*`
InsideTest(i) ==
  \E k \in 1..Len(Visits[i].ancestors) :
    Visits[i].ancestors[k].type = "CallExpression" /\ IsTestCall(Visits[i].ancestors[k])

\* the i-th call is a hook: named so, one function argument, not inside a test
IsHookCall(i) ==
  /\ IsHookNamed(NodeAt(i))
  /\ Len(NodeAt(i).arguments) = 1
  /\ NodeAt(i).arguments[1].type \in {"FunctionExpression", "ArrowFunctionExpression"}
  /\ ~InsideTest(i)

\* C8: with hook detection on, a call adds a Hook record, under its own kind, iff
\* it resolves to one of the four hook names, has exactly one argument, a function,
\* and no enclosing call resolves to `it` or `it.*`; any other call adds no Hook
\* record, a hook-named one no diagnostic either; no Hook scope has a test frame.
C8_HookIffWellFormed ==
  [][(AtCall /\ options.findHooks) =>
       /\ IF IsHookCall(idx)
          THEN /\ pc' = "walk"
               /\ errors' = errors
               /\ \E h \in SUPPORTED_HOOKS :
                    /\ h = parseCallee(NodeAt(idx)).name
                    /\ Len(hooks'[h]) = Len(hooks[h]) + 1
                    /\ LastIsFor(hooks'[h], NodeAt(idx))
                    /\ \A g \in SUPPORTED_HOOKS \ {h} : hooks'[g] = hooks[g]
          ELSE /\ hooks' = hooks
               /\ IsHookNamed(NodeAt(idx)) => (pc' = "walk" /\ errors' = errors)
       /\ \A h \in SUPPORTED_HOOKS : \A k \in 1..Len(hooks'[h]) :
            \A f \in 1..Len(hooks'[h][k].scope) : ~isTestIdentifier(hooks'[h][k].scope[f].func)]_vars

\* the call resolves to Cypress.Commands.add
IsCommandsAdd(n) ==
  parseCallee(n).ok /\ parseCallee(n).name = CYPRESS_COMMANDS_ADD

\* the first argument is a string literal
HasLiteralStringName(n) ==
  /\ n.arguments # <<>>
  /\ n.arguments[1].type = "Literal"
  /\ n.arguments[1].value.t = "string"

\* C9: with definition detection on, a Cypress.Commands.add call whose first
\* argument is not a literal string makes findCyStuff raise, and every
\* CommandDefinition is named by a string.
C9_NonLiteralNameRaises ==
  [][/\ (AtCall /\ options.findAdded /\ IsCommandsAdd(NodeAt(idx)) /\ ~HasLiteralStringName(NodeAt(idx))) =>
          pc' = "raised"
     /\ \A k \in 1..Len(added') : added'[k].name.t = "string"]_vars

RECURSIVE IsLiteralTree(_)
\* objects and arrays over literal leaves, with literal or bare identifier keys
IsLiteralTree(node) ==
  IF IsNullNode(node) THEN FALSE
  ELSE CASE node.type = "Literal" -> TRUE
         [] node.type = "ArrayExpression" ->
              \A k \in 1..Len(node.elements) : IsLiteralTree(node.elements[k])
         [] node.type = "ObjectExpression" ->
              \A k \in 1..Len(node.properties) :
                /\ node.properties[k].type = "Property"
                /\ \/ node.properties[k].key.type = "Literal"
                   \/ node.properties[k].key.type = "Identifier" /\ ~node.properties[k].computed
                /\ IsLiteralTree(node.properties[k].value)
         [] OTHER -> FALSE

RECURSIVE ValueOf(_)
RECURSIVE ValueOfProps(_, _)
\* the own properties the object expression evaluates to, from those of props[1..i]
ValueOfProps(props, i) ==
  IF i = 0 THEN <<>>
  ELSE ObjPut(ValueOfProps(props, i - 1),
              IF props[i].key.type = "Identifier" THEN props[i].key.name
              ELSE KeyString(props[i].key.value),
              ValueOf(props[i].value))

\* the plain value a literal tree evaluates to
ValueOf(node) ==
  CASE node.type = "Literal" -> node.value
    [] node.type = "ArrayExpression" ->
         [t |-> "array", elems |-> [k \in 1..Len(node.elements) |-> ValueOf(node.elements[k])]]
    [] node.type = "ObjectExpression" ->
         [t |-> "object", props |-> ValueOfProps(node.properties, Len(node.properties))]

\* C10: for every argument of a recorded command usage that is a tree of literals,
\* maybeGetLiteralValue returns the plain value the tree evaluates to.
C10_LiteralTreeRoundTrip ==
  \A i \in 1..Len(Visits) :
    (Handled(i) /\ UsagesEndingAt(NodeAt(i).end) # <<>>) =>
      \A k \in 1..Len(NodeAt(i).arguments) :
        IsLiteralTree(NodeAt(i).arguments[k]) =>
          maybeGetLiteralValue(NodeAt(i).arguments[k]) = ValueOf(NodeAt(i).arguments[k])

RECURSIVE HasOffendingProp(_)
\* an object property with a computed key or a function value, at any depth
HasOffendingProp(node) ==
  IF IsNullNode(node) THEN FALSE
  ELSE CASE node.type = "ObjectExpression" ->
              \E k \in 1..Len(node.properties) :
                /\ node.properties[k].type = "Property"
                /\ \/ node.properties[k].computed
                   \/ node.properties[k].value.type \in {"FunctionExpression", "ArrowFunctionExpression"}
                   \/ HasOffendingProp(node.properties[k].value)
         [] node.type = "ArrayExpression" ->
              \E k \in 1..Len(node.elements) : HasOffendingProp(node.elements[k])
         [] OTHER -> FALSE

\* the i-th call is one findCyStuff materializes the arguments of
IsUsageCall(i) ==
  /\ parseCallee(NodeAt(i)).ok
  /\ StartsWith(parseCallee(NodeAt(i)).name, CY_PREFIX)
  /\ ~IsBareCyCall(NodeAt(i))

\* C11: for every object-expression argument of a recorded command usage that
\* holds, at any depth, a property with a computed key or a function value,
\* maybeGetLiteralValue returns no value.
C11_OffendingPropNoValue ==
  \A i \in 1..Len(Visits) :
    (Handled(i) /\ UsagesEndingAt(NodeAt(i).end) # <<>>) =>
      \A k \in 1..Len(NodeAt(i).arguments) :
        (NodeAt(i).arguments[k].type = "ObjectExpression" /\ HasOffendingProp(NodeAt(i).arguments[k])) =>
          maybeGetLiteralValue(NodeAt(i).arguments[k]) = Undefined

\* C12: with usage detection on, maybeGetLiteralValue does not raise on any
\* argument of a call resolved under cy. whose intermediate segments are invoked.
C12_MaterializeNeverRaises ==
  \A i \in 1..Len(Visits) :
    (options.findUsed /\ (Handled(i) \/ RaisedAt(i)) /\ IsUsageCall(i)) =>
      \A k \in 1..Len(NodeAt(i).arguments) :
        maybeGetLiteralValue(NodeAt(i).arguments[k]) # Thrown

\* C13: in every CommandUsage, literalArguments has key i iff argument i is a
\* tree of literals, and then holds the value the tree evaluates to.
C13_LiteralArgumentsIffMaterializable ==
  \A i \in 1..Len(Visits) :
    \A r \in 1..Len(UsagesEndingAt(NodeAt(i).end)) :
      \A k \in 1..Len(NodeAt(i).arguments) :
        IF IsLiteralTree(NodeAt(i).arguments[k])
        THEN /\ (k - 1) \in DOMAIN UsagesEndingAt(NodeAt(i).end)[r].literalArguments
             /\ UsagesEndingAt(NodeAt(i).end)[r].literalArguments[k - 1] = ValueOf(NodeAt(i).arguments[k])
        ELSE (k - 1) \notin DOMAIN UsagesEndingAt(NodeAt(i).end)[r].literalArguments

\* the start offsets never go down along the list
Ascending(records) ==
  \A i \in 1..Len(records) : \A j \in (i + 1)..Len(records) : records[i].start <= records[j].start

\* the nested lists of the records are in ascending order too
AscendingInside(records) ==
  \A i \in 1..Len(records) :
    Ascending(records[i].cyMethodsUsed) /\ Ascending(records[i].otherFuncCalls)

\* C14: every result list (added, used, tests, each hook list, and the
\* cyMethodsUsed / otherFuncCalls of their records) is in ascending order of
\* start offset.
C14_SourceOrder ==
  /\ Ascending(added) /\ AscendingInside(added)
  /\ Ascending(used)
  /\ Ascending(tests) /\ AscendingInside(tests)
  /\ \A h \in SUPPORTED_HOOKS : Ascending(hooks[h]) /\ AscendingInside(hooks[h])

\* n is base(...) or base.flag(...) as written, with a literal first argument and
\* a function with a block body as second argument
IsSuiteBlock(n, callee) ==
  /\ n.callee = callee
  /\ Len(n.arguments) >= 2
  /\ n.arguments[1].type = "Literal"
  /\ n.arguments[2].type \in {"FunctionExpression", "ArrowFunctionExpression"}
  /\ n.arguments[2].body.type = "BlockStatement"

\* the callee nodes `describe`, `describe.skip` and `describe.only`, without their offsets
CalleeShape(c) ==
  IF c.type = "Identifier" THEN <<c.name>>
  ELSE IF c.type = "MemberExpression" /\ ~c.computed /\ c.object.type = "Identifier"
  THEN <<c.object.name, c.property.name>>
  ELSE <<>>

\* describe("...", function-with-block-body)
IsPlainDescribe(n) ==
  /\ CalleeShape(n.callee) = <<S_describe>>
  /\ IsSuiteBlock(n, n.callee)

\* describe.skip / describe.only ("...", function-with-block-body)
IsFlaggedDescribe(n) ==
  /\ CalleeShape(n.callee) \in {<<S_describe, S_skip>>, <<S_describe, S_only>>}
  /\ IsSuiteBlock(n, n.callee)

\* a top-level call statement of a suite body whose resolved name is not allowed there
IsDisallowedMember(stmt) ==
  /\ stmt.type = "ExpressionStatement"
  /\ stmt.expression.type = "CallExpression"
  /\ parseCallee(stmt.expression).ok
  /\ LET name == parseCallee(stmt.expression).name
     IN /\ name # S_it /\ ~StartsWith(name, S_it \o <<".">>)
        /\ name # S_describe /\ ~StartsWith(name, S_describe \o <<".">>)
        /\ name \notin SUPPORTED_HOOKS
        /\ ~StartsWith(name, SCENARIO_PREFIX)

\* a top-level call statement of a suite body with a resolved name
IsResolvedMember(stmt) ==
  /\ stmt.type = "ExpressionStatement"
  /\ stmt.expression.type = "CallExpression"
  /\ parseCallee(stmt.expression).ok

\* the suite-purity diagnostics among errs[from..] that point at the statement stmt
PurityDiagnostics(errs, from, stmt) ==
  {j \in from..Len(errs) :
     /\ errs[j].kind = "PURE DESCRIBE"
     /\ errs[j].loc = stmt.start
     /\ errs[j].detail = parseCallee(stmt.expression).name}

\* C15: with the extension on, the callback on describe("...", function) adds,
\* for every top-level call statement of the body, exactly one suite-purity
\* diagnostic naming the call when its resolved name is not allowed and none
\* when it is, and nothing else.
C15_SuitePurityDiagnostics ==
  [][(AtExtCall /\ IsPlainDescribe(NodeAt(idx))) =>
       /\ pc' = "ext"
       /\ SubSeq(extErrors', 1, Len(extErrors)) = extErrors
       /\ \A k \in 1..Len(NodeAt(idx).arguments[2].body.body) :
            IsResolvedMember(NodeAt(idx).arguments[2].body.body[k]) =>
              Cardinality(PurityDiagnostics(extErrors', Len(extErrors) + 1,
                                            NodeAt(idx).arguments[2].body.body[k]))
                = IF IsDisallowedMember(NodeAt(idx).arguments[2].body.body[k]) THEN 1 ELSE 0
       /\ Len(extErrors') - Len(extErrors)
            = Cardinality({k \in 1..Len(NodeAt(idx).arguments[2].body.body) :
                             IsDisallowedMember(NodeAt(idx).arguments[2].body.body[k])})]_vars

\* describe("S", () => { it("t", () => {}); someOtherHelper(); }) was analysed:
\* one diagnostic, naming someOtherHelper
C15_Witness ==
  /\ pc = "done"
  /\ options.enableQwilExtension
  /\ Len(errors) = 1
  /\ errors[1].kind = "PURE DESCRIBE"
  /\ errors[1].detail = S_helper
  /\ Len(tests) = 1
  /\ \E i \in 1..Len(Visits) :
       IsPlainDescribe(NodeAt(i)) /\ Len(NodeAt(i).arguments[2].body.body) = 2

\* C16: with the extension on, the callback on describe.skip / describe.only
\* ("...", function) adds a suite-purity diagnostic for every top-level call
\* statement of the body whose resolved name is not allowed.
C16_FlaggedSuitePurity ==
  [][(AtExtCall /\ IsFlaggedDescribe(NodeAt(idx))) =>
       \A k \in 1..Len(NodeAt(idx).arguments[2].body.body) :
         IsDisallowedMember(NodeAt(idx).arguments[2].body.body[k]) =>
           PurityDiagnostics(extErrors', Len(extErrors) + 1,
                             NodeAt(idx).arguments[2].body.body[k]) # {}]_vars

\* the call resolves to a name starting with expectStandardScenariosFor
IsScenarioCall(n) ==
  parseCallee(n).ok /\ StartsWith(parseCallee(n).name, SCENARIO_PREFIX)

\* C17: with the extension on, a call resolved to expectStandardScenariosFor*
\* adds exactly one scenario record when its arguments are exactly one object
\* expression, and otherwise exactly one diagnostic and no scenario record.
C17_ScenarioOrDiagnostic ==
  [][(AtExtCall /\ IsScenarioCall(NodeAt(idx))) =>
       IF Len(NodeAt(idx).arguments) = 1 /\ NodeAt(idx).arguments[1].type = "ObjectExpression"
       THEN /\ pc' = "ext"
            /\ Len(scenarios') = Len(scenarios) + 1
            /\ SubSeq(scenarios', 1, Len(scenarios)) = scenarios
            /\ LastIsFor(scenarios', NodeAt(idx))
       ELSE /\ pc' = "ext"
            /\ scenarios' = scenarios
            /\ Len(extErrors') = Len(extErrors) + 1
            /\ SubSeq(extErrors', 1, Len(extErrors)) = extErrors]_vars

\* the key of a scenario property as written: an identifier or a string literal
WrittenKey(prop) ==
  IF prop.key.type = "Identifier" THEN prop.key.name ELSE prop.key.value.s

\* a property of a scenario object that the extension diagnoses
IsScenarioPropViolation(prop) ==
  /\ prop.type = "Property"
  /\ ~prop.computed
  /\ prop.key.type = "Identifier" \/ (prop.key.type = "Literal" /\ prop.key.value.t = "string")
  /\ IF EndsWith(WrittenKey(prop), SCENARIO_FN_SUFFIX)
     THEN prop.shorthand \/ prop.value.type \notin {"FunctionExpression", "ArrowFunctionExpression"}
     ELSE prop.value.type \in {"FunctionExpression", "ArrowFunctionExpression"}

\* a scenario call with a wrong argument list or a diagnosed property
IsScenarioViolation(n) ==
  /\ IsScenarioCall(n)
  /\ \/ Len(n.arguments) # 1
     \/ n.arguments[1].type # "ObjectExpression"
     \/ \E k \in 1..Len(n.arguments[1].properties) : IsScenarioPropViolation(n.arguments[1].properties[k])

\* a describe("...", function) block with a top-level call that is not allowed there
IsSuiteBodyViolation(n) ==
  /\ IsPlainDescribe(n)
  /\ \E k \in 1..Len(n.arguments[2].body.body) : IsDisallowedMember(n.arguments[2].body.body[k])

\* C18: the callbacks do not raise on a test-argument, suite-body or
\* scenario-argument / scenario-property violation: the walk goes on to the next
\* call, so the file's other records are still emitted.
C18_ViolationsNeverAbort ==
  [][/\ (AtCall /\ options.findTests /\ IsTestCall(NodeAt(idx)) /\ IsMalformedTest(NodeAt(idx))) =>
          (pc' = "walk" /\ idx' = idx + 1)
     /\ (AtExtCall /\ (IsSuiteBodyViolation(NodeAt(idx)) \/ IsScenarioViolation(NodeAt(idx)))) =>
          (pc' = "ext" /\ idx' = idx + 1)]_vars

\* the usage u is in the list, with the same name, span and chain
HasUsage(list, u) ==
  \E j \in 1..Len(list) :
    /\ list[j].name = u.name
    /\ list[j].start = u.start
    /\ list[j].end = u.end
    /\ list[j].chain = u.chain

\* every cyMethodsUsed entry of the records is in the top-level used list
NestedUsagesListed(records) ==
  \A i \in 1..Len(records) :
    \A j \in 1..Len(records[i].cyMethodsUsed) : HasUsage(used, records[i].cyMethodsUsed[j])

\* C19: with usage detection on, every record of a cyMethodsUsed list of an
\* added, test or hook record is also in the top-level used list, with the same
\* name, start, end and chain.
C19_NestedUsagesInTopLevel ==
  options.findUsed =>
    /\ NestedUsagesListed(added)
    /\ NestedUsagesListed(tests)
    /\ NestedUsagesListed(HookRecords)

\* a test whose body uses a cy command was recorded, and the usage is listed
C19_Witness ==
  /\ pc = "done"
  /\ options.findUsed
  /\ \E i \in 1..Len(tests) :
       /\ Len(tests[i].cyMethodsUsed) >= 1
       /\ HasUsage(used, tests[i].cyMethodsUsed[1])

\* C20: with no AST findCyStuff never raises and every list stays empty.
C20_NoAstEmptyResult ==
  IsNullNode(ast) =>
    /\ pc \in {"walk", "ext", "done"}
    /\ added = <<>>
    /\ used = <<>>
    /\ tests = <<>>
    /\ \A h \in SUPPORTED_HOOKS : hooks[h] = <<>>
    /\ scenarios = <<>>
    /\ errors = <<>>
    /\ extErrors = <<>>

\* findCyStuff(null, { enableQwilExtension: true }) has returned
C20_Witness ==
  /\ IsNullNode(ast)
  /\ options.enableQwilExtension
  /\ pc = "done"
  /\ errors = <<>>

RECURSIVE HasComputedAccess(_)
\* the callee chain c goes through a computed member access: o[p]
HasComputedAccess(c) ==
  CASE c.type = "MemberExpression" -> c.computed \/ HasComputedAccess(c.object)
    [] c.type = "CallExpression" -> HasComputedAccess(c.callee)
    [] OTHER -> FALSE

\* the end offsets of the entries of the cyMethodsUsed and otherFuncCalls lists of the records
NestedEnds(records) ==
  UNION {{records[i].cyMethodsUsed[j].end : j \in 1..Len(records[i].cyMethodsUsed)}
           \cup {records[i].otherFuncCalls[j].end : j \in 1..Len(records[i].otherFuncCalls)} :
         i \in 1..Len(records)}

\* C21: a call whose callee chain contains a computed member access yields no
\* record: no usage, no test, no hook, no definition, and no entry of a
\* cyMethodsUsed or otherFuncCalls list.
C21_ComputedAccessIgnored ==
  \A i \in 1..Len(Visits) :
    (HasComputedAccess(NodeAt(i).callee) /\ Handled(i)) =>
      /\ UsagesEndingAt(NodeAt(i).end) = <<>>
      /\ TestsAt(NodeAt(i)) = <<>>
      /\ HooksAt(NodeAt(i)) = <<>>
      /\ \A k \in 1..Len(added) : added[k].end # NodeAt(i).end
      /\ NodeAt(i).end \notin NestedEnds(tests) \cup NestedEnds(HookRecords) \cup NestedEnds(added)

RECURSIVE TrailingProperty(_)
\* the last property of a callee chain: a of cy.a, of cy.a() and of cy.a()()
TrailingProperty(c) ==
  IF c.type = "MemberExpression" THEN c.property ELSE TrailingProperty(c.callee)

\* n resolves under cy. with every intermediate segment call-marked, through plain member accesses
IsChainedCyCall(n) ==
  /\ parseCallee(n).ok
  /\ StartsWith(parseCallee(n).name, CY_PREFIX)
  /\ \A k \in 1..Len(SliceInner(SplitDots(parseCallee(n).name))) :
       EndsWith(SliceInner(SplitDots(parseCallee(n).name))[k], CALL_MARKER)
  /\ ~HasComputedAccess(n.callee)

\* C22: every call resolved under cy. whose intermediate segments are all
\* call-marked yields one CommandUsage that starts at the call's trailing
\* property identifier, ends at the end of the call and is named after that
\* identifier, whatever the shape of the callee (cy.a()() included).
C22_UsageSpanAndName ==
  [][(AtCall /\ options.findUsed /\ IsChainedCyCall(NodeAt(idx))) =>
       /\ pc' = "walk"
       /\ Len(used') = Len(used) + 1
       /\ SubSeq(used', 1, Len(used)) = used
       /\ used'[Len(used')].start = TrailingProperty(NodeAt(idx).callee).start
       /\ used'[Len(used')].end = NodeAt(idx).end
       /\ used'[Len(used')].name = TrailingProperty(NodeAt(idx).callee).name]_vars

\* the record lies inside the span of node n
Within(r, n) ==
  n.start <= r.start /\ r.end <= n.end

\* the final positional argument of the call
LastArgument(n) ==
  n.arguments[Len(n.arguments)]

\* the calls visited before the i-th one that lie inside n, resolve, and are not under cy.
OtherCallsInside(i, n) ==
  {k \in 1..(i - 1) :
     /\ Within(NodeAt(k), n)
     /\ parseCallee(NodeAt(k)).ok
     /\ ~StartsWith(parseCallee(NodeAt(k)).name, CY_PREFIX)}

\* C23: a CommandDefinition produced from a Cypress.Commands.add call with two
\* or more arguments has as cyMethodsUsed the usages found inside the final
\* argument and as otherFuncCalls one record per other resolvable call inside
\* the final argument; calls inside a middle argument are not attributed.
C23_ImplementationIsLastArgument ==
  [][(AtCall /\ options.findAdded /\ IsCommandsAdd(NodeAt(idx)) /\ Len(NodeAt(idx).arguments) >= 2
        /\ pc' = "walk") =>
       /\ Len(added') = Len(added) + 1
       /\ added'[Len(added')].end = NodeAt(idx).end
       /\ added'[Len(added')].hasCyMethodsUsed =>
            added'[Len(added')].cyMethodsUsed
              = SelectSeq(used, LAMBDA u : Within(u, LastArgument(NodeAt(idx))))
       /\ added'[Len(added')].hasOtherFuncCalls =>
            /\ \A j \in 1..Len(added'[Len(added')].otherFuncCalls) :
                 /\ LastArgument(NodeAt(idx)).start <= added'[Len(added')].otherFuncCalls[j].rootStart
                 /\ added'[Len(added')].otherFuncCalls[j].end <= LastArgument(NodeAt(idx)).end
            /\ \A k \in OtherCallsInside(idx, LastArgument(NodeAt(idx))) :
                 Cardinality({j \in 1..Len(added'[Len(added')].otherFuncCalls) :
                                added'[Len(added')].otherFuncCalls[j].end = NodeAt(k).end}) = 1]_vars

\* a definition with three arguments was recorded: the cy call of its middle
\* argument is a top-level usage but not one of its cyMethodsUsed
C23_Witness ==
  /\ pc = "done"
  /\ Len(added) = 1
  /\ \E i \in 1..Len(Visits) :
       /\ IsCommandsAdd(NodeAt(i))
       /\ Len(NodeAt(i).arguments) = 3
       /\ added[1].end = NodeAt(i).end
       /\ Len(added[1].cyMethodsUsed) = 1
       /\ Len(added[1].otherFuncCalls) = 1
       /\ \E j \in 1..Len(used) :
            /\ Within(used[j], NodeAt(i).arguments[2])
            /\ ~HasUsage(added[1].cyMethodsUsed, used[j])

\* a template literal whose interpolations are all identifiers
IsIdentifierTemplate(node) ==
  /\ node.type = "TemplateLiteral"
  /\ \A e \in 1..Len(node.expressions) : node.expressions[e].type = "Identifier"

\* the raw chunks interleaved with the placeholder of each interpolated identifier
TemplateText(node) ==
  JsStr(interleaveJoin(node.quasis, [e \in 1..Len(node.expressions) |-> Placeholder(node.expressions[e])]))

\* C24: a template-literal argument of a command usage whose interpolations are
\* all identifiers is materialized: literalArguments holds, at the argument's
\* index, the raw chunks interleaved with the placeholders of the identifiers.
C24_TemplateLiteralMaterialized ==
  \A i \in 1..Len(Visits) :
    \A r \in 1..Len(UsagesEndingAt(NodeAt(i).end)) :
      \A k \in 1..Len(NodeAt(i).arguments) :
        IsIdentifierTemplate(NodeAt(i).arguments[k]) =>
          /\ (k - 1) \in DOMAIN UsagesEndingAt(NodeAt(i).end)[r].literalArguments
          /\ UsagesEndingAt(NodeAt(i).end)[r].literalArguments[k - 1] = TemplateText(NodeAt(i).arguments[k])

\* every frame call of the scope gets a string name from inferTestName
FramesNamed(scopeNodes) ==
  \A k \in 1..Len(scopeNodes) :
    /\ inferTestName(scopeNodes[k]) # Thrown
    /\ inferTestName(scopeNodes[k]).t = "string"

\* C25: inferTestName returns a string, without raising, for every frame call
\* of a well-formed test, of a hook and of a scenario call, whatever the frame
\* call's arguments are.
C25_NameInferenceNeverFails ==
  \A i \in 1..Len(Visits) :
    /\ (options.findTests /\ (Handled(i) \/ RaisedAt(i))
          /\ IsTestCall(NodeAt(i)) /\ ~IsMalformedTest(NodeAt(i))) =>
         FramesNamed(ScopeNodes(Visits[i].ancestors))
    /\ (options.findHooks /\ (Handled(i) \/ RaisedAt(i)) /\ IsHookCall(i)) =>
         FramesNamed(ScopeNodes(Visits[i].ancestors))
    /\ (pc \in {"ext", "raisedInExtension"} /\ i <= idx /\ IsScenarioCall(NodeAt(i))) =>
         FramesNamed(DescribeScopeNodes(Visits[i].ancestors))

\* the key of the property ends in Fn as written (a spread has no key)
KeyEndsInFn(prop) ==
  /\ prop.type = "Property"
  /\ \/ prop.key.type = "Identifier" /\ EndsWith(prop.key.name, SCENARIO_FN_SUFFIX)
     \/ /\ prop.key.type = "Literal"
        /\ prop.key.value.t = "string"
        /\ EndsWith(prop.key.value.s, SCENARIO_FN_SUFFIX)

\* the property's value is a function
IsFunctionValued(prop) ==
  /\ prop.type = "Property"
  /\ prop.value.type \in {"FunctionExpression", "ArrowFunctionExpression"}

\* the property is to become a ScenarioFunction record
IsScenarioFunctionProp(prop) ==
  KeyEndsInFn(prop) /\ ~prop.shorthand /\ IsFunctionValued(prop)

\* the property is to be diagnosed
IsDiagnosedProp(prop) ==
  \/ KeyEndsInFn(prop) /\ ~IsScenarioFunctionProp(prop)
  \/ ~KeyEndsInFn(prop) /\ IsFunctionValued(prop)

\* C26: on a scenario call with one object argument the pass does not raise,
\* whatever the properties are; each property with a key ending in Fn gives one
\* ScenarioFunction record if it is not shorthand and holds a function and
\* one diagnostic otherwise; any other property gives one diagnostic if it holds
\* a function and nothing otherwise.
C26_ScenarioProperties ==
  [][(AtExtCall /\ IsScenarioCall(NodeAt(idx)) /\ Len(NodeAt(idx).arguments) = 1
        /\ NodeAt(idx).arguments[1].type = "ObjectExpression") =>
       /\ pc' = "ext"
       /\ Len(scenarios') = Len(scenarios) + 1
       /\ \A k \in 1..Len(NodeAt(idx).arguments[1].properties) :
            Cardinality({j \in 1..Len(scenarios'[Len(scenarios')].functions) :
                           /\ scenarios'[Len(scenarios')].functions[j].start = NodeAt(idx).arguments[1].properties[k].start
                           /\ scenarios'[Len(scenarios')].functions[j].end = NodeAt(idx).arguments[1].properties[k].end})
              = IF IsScenarioFunctionProp(NodeAt(idx).arguments[1].properties[k]) THEN 1 ELSE 0
       /\ Len(scenarios'[Len(scenarios')].functions)
            = Cardinality({k \in 1..Len(NodeAt(idx).arguments[1].properties) :
                             IsScenarioFunctionProp(NodeAt(idx).arguments[1].properties[k])})
       /\ Len(extErrors') - Len(extErrors)
            = Cardinality({k \in 1..Len(NodeAt(idx).arguments[1].properties) :
                             IsDiagnosedProp(NodeAt(idx).arguments[1].properties[k])})]_vars

\* n is a call whose resolved name is describe or starts with describe.
IsDescribeFamilyCall(n) ==
  /\ n.type = "CallExpression"
  /\ parseCallee(n).ok
  /\ \/ parseCallee(n).name = S_describe
     \/ StartsWith(parseCallee(n).name, S_describe \o <<".">>)

\* the describe-family calls enclosing the i-th call, outermost first
EnclosingSuites(i) ==
  SelectSeq(Visits[i].ancestors, IsDescribeFamilyCall)

\* the frames are those of the calls, one each and in the same order
FramesAre(scope, calls) ==
  /\ Len(scope) = Len(calls)
  /\ \A k \in 1..Len(scope) :
       /\ scope[k].start = calls[k].start
       /\ scope[k].end = calls[k].end
       /\ scope[k].func = parseCallee(calls[k]).name

\* C27: the scope of a scenario record has exactly one frame for every enclosing
\* call resolved to describe or describe.*, in order, and no other frame:
\* enclosing test and hook calls give none.
C27_ScenarioScopeIsSuitesOnly ==
  \A s \in 1..Len(scenarios) :
    \A i \in 1..Len(Visits) :
      (NodeAt(i).start = scenarios[s].start /\ NodeAt(i).end = scenarios[s].end) =>
        FramesAre(scenarios[s].scope, EnclosingSuites(i))

\* a scenario written inside a test inside a suite was recorded with the suite's frame only
C27_Witness ==
  /\ pc = "done"
  /\ \E s \in 1..Len(scenarios) :
       \E i \in 1..Len(Visits) :
         /\ NodeAt(i).start = scenarios[s].start
         /\ NodeAt(i).end = scenarios[s].end
         /\ InsideTest(i)
         /\ Len(scenarios[s].scope) = 1
         /\ scenarios[s].scope[1].func = S_describe

RECURSIVE HasTrailingProperty(_)
\* the callee chain ends in a property, called or not: foo.a, foo.a() but not foo, foo()
HasTrailingProperty(c) ==
  CASE c.type = "MemberExpression" -> TRUE
    [] c.type = "CallExpression" -> HasTrailingProperty(c.callee)
    [] OTHER -> FALSE

\* the calls of the file written inside node f
CallsInside(f) ==
  {k \in 1..Len(Visits) : Within(NodeAt(k), f)}

\* the i-th call is resolvable and not under cy.
IsOtherCall(k) ==
  parseCallee(NodeAt(k)).ok /\ ~StartsWith(parseCallee(NodeAt(k)).name, CY_PREFIX)

\* what the claim says of the lists the aggregators give for the body f
OtherCallsExact(f, other, cy) ==
  /\ ~other.raised
  /\ \A k \in CallsInside(f) :
       Cardinality({j \in 1..Len(other.used) : other.used[j].end = NodeAt(k).end})
         = IF IsOtherCall(k) THEN 1 ELSE 0
  /\ Len(other.used) = Cardinality({k \in CallsInside(f) : IsOtherCall(k)})
  /\ \A j \in 1..Len(other.used) :
       /\ other.used[j].rootStart <= other.used[j].start
       /\ other.used[j].start < other.used[j].end
       /\ \A k \in CallsInside(f) :
            other.used[j].end = NodeAt(k).end =>
              ((other.used[j].start = other.used[j].rootStart) <=> ~HasTrailingProperty(NodeAt(k).callee))
       /\ \A u \in 1..Len(cy.used) : cy.used[u].end # other.used[j].end

\* C28: for the body of every well-formed test, the aggregator gives
\* otherFuncCalls with exactly one record per resolvable call not under cy.,
\* none for a call under cy. and none shared with cyMethodsUsed; each record has
\* rootStart <= start < end, with start = rootStart exactly when the callee has
\* no trailing property identifier.
C28_OtherCallsExact ==
  \A i \in 1..Len(Visits) :
    (options.findTests /\ options.includeOtherFuncCalls /\ (Handled(i) \/ RaisedAt(i))
       /\ IsTestCall(NodeAt(i)) /\ ~IsMalformedTest(NodeAt(i))) =>
      OtherCallsExact(NodeAt(i).arguments[2], findInnerFuncCalls(NodeAt(i).arguments[2]),
                      IF findInnerCypressCalls(NodeAt(i).arguments[2]).raised THEN Nothing
                      ELSE findInnerCypressCalls(NodeAt(i).arguments[2]))

\* the frames enclose the record and each frame encloses the next one
FramesNested(r) ==
  /\ \A k \in 1..Len(r.scope) : r.scope[k].start <= r.start /\ r.end <= r.scope[k].end
  /\ \A k \in 1..(Len(r.scope) - 1) :
       /\ r.scope[k].start <= r.scope[k + 1].start
       /\ r.scope[k + 1].end <= r.scope[k].end
       /\ r.scope[k].end - r.scope[k].start > r.scope[k + 1].end - r.scope[k + 1].start

\* C29: in every TestCase and Hook record the frames are listed outermost
\* first, each encloses the record and the next frame; the last frame of a
\* TestCase is the test's own call, and no frame of a Hook is the hook's own call.
C29_ScopeFramesNested ==
  /\ \A t \in 1..Len(tests) :
       /\ FramesNested(tests[t])
       /\ tests[t].scope # <<>>
       /\ tests[t].scope[Len(tests[t].scope)].start = tests[t].start
       /\ tests[t].scope[Len(tests[t].scope)].end = tests[t].end
  /\ \A h \in 1..Len(HookRecords) :
       /\ FramesNested(HookRecords[h])
       /\ \A k \in 1..Len(HookRecords[h].scope) :
            HookRecords[h].scope[k].start < HookRecords[h].start
              \/ HookRecords[h].end < HookRecords[h].scope[k].end

\* a test below two suites was recorded with its three frames
C29_Witness ==
  /\ pc = "done"
  /\ \E t \in 1..Len(tests) :
       /\ Len(tests[t].scope) = 3
       /\ tests[t].scope[1].start < tests[t].scope[2].start
       /\ tests[t].scope[3].end = tests[t].end

\* the .js files the arguments of the run name, directly or through a directory
NamedFiles ==
  {argv[k] : k \in {j \in 1..Len(argv) : Disk(argv[j]).kind = "file"}}
    \cup UNION {{InDir(argv[k], Disk(argv[k]).entries[e]) : e \in 1..Len(Disk(argv[k]).entries)} :
                k \in {j \in 1..Len(argv) : Disk(argv[j]).kind = "directory"}}

\* the files analysed so far, in the order of their analysis
Analysed ==
  [k \in 1..Len(out) |-> out[k].filename]

\* the text of the file is not a program
FailsToParse(f) ==
  Disk(f).kind = "file" /\ Disk(f).text = "invalid"

\* C30: in a dump run the files are analysed one at a time in ascending path
\* order, each once; the report is printed once, after every named file has
\* been analysed; the loop never goes past a file that fails to parse: the
\* process ends there with status 1 and nothing is ever printed.
C30_DumpRun ==
  /\ \A k \in 1..(Len(out) - 1) : LexLess(Analysed[k], Analysed[k + 1])
  /\ \A k \in 1..Len(out) :
       /\ Analysed[k] \in NamedFiles
       /\ \A f \in NamedFiles : LexLess(f, Analysed[k]) => \E j \in 1..(k - 1) : Analysed[j] = f
  /\ dpc = "analyse" => Len(out) = cursor - 1
  /\ stdout # <<>> =>
       /\ stdout = <<out>>
       /\ {Analysed[k] : k \in 1..Len(out)} = NamedFiles
       /\ dpc = "exited"
       /\ exitCode = 0
  /\ (\E f \in NamedFiles : FailsToParse(f)) =>
       /\ stdout = <<>>
       /\ \A k \in 1..Len(out) : ~FailsToParse(Analysed[k])
       /\ dpc = "exited" => exitCode = 1
  /\ \A k \in 1..Len(filenames) :
       FailsToParse(filenames[k]) =>
         /\ cursor <= k
         /\ (cursor = k /\ dpc = "exited") => (exitCode = 1 /\ Len(out) = k - 1)

\* a run ended with status 1 at a file that does not parse, after analysing
\* another file, and printed nothing
C30_Witness ==
  /\ dpc = "exited"
  /\ exitCode = 1
  /\ Len(out) >= 1
  /\ cursor <= Len(filenames)
  /\ FailsToParse(filenames[cursor])
  /\ stdout = <<>>

====
